---- MODULE Spec2Model ----
(***************************************************************************)
(* Beacon Hill Compliance Tracker backend (src/backend): the auth tables   *)
(* (users, email_tokens, signing_keys), the compliance tables, the HMAC    *)
(* check of the ingest endpoints and the auth / key-management routes.     *)
(*                                                                         *)
(* One HTTP request is served at a time: a route handler runs as one       *)
(* atomic step (one transaction, one commit) on the request it is given,   *)
(* leaving `request` and `response` set; send_response ends the request.   *)
(* The server clock `now` (seconds) advances between requests.             *)
(*                                                                         *)
(* Python None / SQL NULL is the empty sequence <<>>, a present value v is *)
(* <<v>>.  Header strings that the code parses are sequences of            *)
(* characters; opaque identifiers are TLA+ strings.                        *)
(***************************************************************************)
EXTENDS Integers, Sequences, FiniteSets, TLC

VARIABLES
    users,          \* table users: id -> row (auth_models.User)
    email_tokens,   \* table email_tokens: set of rows (auth_models.EmailToken)
    tokens_issued,  \* number of EmailToken.generate_token() calls so far
    outbox,         \* the mails the SMTP service accepted for delivery
    signing_keys,   \* table signing_keys: sequence of rows, index = id
    db,             \* the compliance database (committees, bills, ...)
    stats_cache,    \* the worker's in-memory _stats_cache
    now,            \* server clock, seconds
    request,        \* the request being served (flask.request)
    response,       \* the handler's response to `request`
    saved_views,    \* table saved_views: set of rows (auth_models.SavedView)
    inflight,       \* requests other threads are serving: checked, not yet committed
    workers         \* the worker processes serving statistics and imports side by side

vars == <<users, email_tokens, tokens_issued, outbox, signing_keys, db, stats_cache, now, request, response,
         saved_views, inflight, workers>>

(***************************************************************************)
(* Bounds of the model.                                                    *)
(***************************************************************************)
MaxKeys == 2          \* signing keys ever generated
MaxRows == 1          \* bill_compliance rows
MaxClock == 301       \* last instant of the ingest scenario, seconds
MaxUsers == 3         \* rows of users
MaxTokens == 2        \* e-mail tokens ever generated
MaxTime == 86401      \* last instant of the account scenario, seconds

None == <<>>
Some(v) == <<v>>

\* a window check that forgets abs()
AbsDropped(n) == n

Abs(n) == IF n < 0 THEN -n ELSE n

(***************************************************************************)
(* Python int(str): surrounding whitespace is stripped, one optional sign, *)
(* then one or more decimal digits; anything else raises ValueError.       *)
(***************************************************************************)
Whitespace == {" "}
Digits == {"0", "1", "2", "3", "4", "5", "6", "7", "8", "9"}

DigitVal(c) ==
    CASE c = "0" -> 0 [] c = "1" -> 1 [] c = "2" -> 2 [] c = "3" -> 3
      [] c = "4" -> 4 [] c = "5" -> 5 [] c = "6" -> 6 [] c = "7" -> 7
      [] c = "8" -> 8 [] c = "9" -> 9

RECURSIVE LStrip(_)
LStrip(s) == IF s # <<>> /\ Head(s) \in Whitespace THEN LStrip(Tail(s)) ELSE s

RECURSIVE RStrip(_)
RStrip(s) ==
    IF s # <<>> /\ s[Len(s)] \in Whitespace
    THEN RStrip(SubSeq(s, 1, Len(s) - 1))
    ELSE s

RECURSIVE DigitsValue(_)
DigitsValue(s) ==
    IF s = <<>> THEN 0
    ELSE 10 * DigitsValue(SubSeq(s, 1, Len(s) - 1)) + DigitVal(s[Len(s)])

PyInt(s) ==
    LET t == RStrip(LStrip(s))
        signed == t # <<>> /\ Head(t) \in {"-", "+"}
        d == IF signed THEN Tail(t) ELSE t
    IN  IF d # <<>> /\ \A i \in 1..Len(d) : d[i] \in Digits
        THEN [ok |-> TRUE,
              val |-> IF signed /\ Head(t) = "-" THEN 0 - DigitsValue(d)
                      ELSE DigitsValue(d)]
        ELSE [ok |-> FALSE, val |-> 0]

(***************************************************************************)
(* JSON.  A parsed document is null or an object (a function from member   *)
(* names to values).  A raw body is a document together with its layout:   *)
(* `spaced` bodies carry insignificant whitespace.  get_json parses (the   *)
(* layout is lost, null becomes None); json.dumps with separators          *)
(* (",", ":") writes the compact text of a document.                       *)
(***************************************************************************)
EmptyObject == [k \in {} |-> ""]

JsonNull == [isnull |-> TRUE, obj |-> EmptyObject]
JsonObject(m) == [isnull |-> FALSE, obj |-> m]

RawBody(doc, spaced) == [doc |-> doc, spaced |-> spaced]

get_json(body) == IF body.doc.isnull THEN None ELSE Some(body.doc.obj)

json_dumps(doc) == RawBody(doc, FALSE)

sha256(text) == [sha256_of |-> text]

hmac_sha256(secret, message) == [mac_key |-> secret, mac_msg |-> message]

NoSignature == [mac_key |-> "", mac_msg |-> <<>>]

\* dict.get(key) on a parsed object; absent members read as None
Get(obj, key) == IF key \in DOMAIN obj THEN Some(obj[key]) ELSE None


(***************************************************************************)
(* Auth tables.                                                            *)
(***************************************************************************)
ROLE_USER == "user"
ROLE_PRIVILEGED == "privileged"
ROLE_ADMIN == "admin"
VALID_ROLES == {ROLE_USER, ROLE_PRIVILEGED, ROLE_ADMIN}

PURPOSE_VERIFICATION == "verification"
PURPOSE_PASSWORD_RESET == "password_reset"

\* werkzeug generate_password_hash / check_password_hash: a salted one-way
\* hash; check succeeds exactly for the password the hash was made from
generate_password_hash(password) == [pw_hash_of |-> password]

UserRow(email, password, role, is_active, created_at) ==
    [email |-> email, pw_hash |-> generate_password_hash(password),
     role |-> role, is_active |-> is_active, created_at |-> created_at]

\* User.query.get(id): the row or None
UserGet(id) == IF id \in 1..Len(users) THEN Some(users[id]) ELSE None

\* SigningKey.generate_key_pair for the n-th key: 'bhct_' + 24 random
\* characters and a random secret, distinct per key
KeyIdOf(n) == "bhct_" \o ToString(n)
SecretOf(n) == "secret_" \o ToString(n)
generate_key_pair(n) == <<KeyIdOf(n), SecretOf(n)>>

\* an is_revoked that never reports a revocation
is_revoked_never(key) == FALSE

\* SigningKey.is_revoked
is_revoked(key) == key.revoked_at # None

\* SigningKey.revoke
revoke(key) == [key EXCEPT !.revoked_at = Some(now)]

(***************************************************************************)
(* Compliance database and the import functions.                           *)
(***************************************************************************)
EmptyTable == [k \in {} |-> ""]

EmptyDb ==
    [committees |-> EmptyTable,
     bills |-> EmptyTable,
     bill_compliance |-> <<>>,
     compliance_scan_metadata |-> <<>>,
     changelog_versions |-> <<>>,
     changelog_entries |-> <<>>,
     global_stats_cache |-> None,   \* the row id = 1, or None
     db_type |-> "sqlite"]          \* get_database_type()

\* INSERT OR REPLACE / ON CONFLICT DO UPDATE on a primary key
Upsert(table, key, row) == (key :> row) @@ table

\* INSERT OR IGNORE / ON CONFLICT DO NOTHING
InsertIgnore(table, key, row) == table @@ (key :> row)

ZeroStats ==
    [total_committees |-> 0, total_bills |-> 0, compliant_bills |-> 0,
     incomplete_bills |-> 0, non_compliant_bills |-> 0, unknown_bills |-> 0,
     overall_compliance_rate |-> 0, latest_report_date |-> None]

InvalidatedCache == [data |-> None, data_timestamp |-> None, cache_timestamp |-> None]

\* _invalidate_stats_cache
_invalidate_stats_cache == InvalidatedCache

\* the in-memory cache after _warm_stats_cache on an empty database
WarmCache == [data |-> Some(ZeroStats), data_timestamp |-> None, cache_timestamp |-> Some(0)]

\* SQL LOWER(state)
LOWER(state) ==
    CASE state = "Compliant" -> "compliant"
      [] state = "Non-Compliant" -> "non-compliant"
      [] state = "Incomplete" -> "incomplete"
      [] state = "Unknown" -> "unknown"
      [] OTHER -> state

\* ROUND(100.0 * part / total, 2), in hundredths of a percent
RoundedRate(part, total) ==
    IF total > 0 THEN (2 * 10000 * part + total) \div (2 * total) ELSE 0

\* timedelta(days=1), in seconds
SECONDS_PER_DAY == 86400

\* DATE(generated_at)
DATE(t) == t \div SECONDS_PER_DAY

(***************************************************************************)
(* Diff reports: the bills of a report compared with the committee's       *)
(* snapshot one day, seven days and thirty days before.                     *)
(***************************************************************************)
\* Python truthiness of a field of a bill: a date is a text or None, the
\* other fields are booleans
Truthy(field, value) ==
    IF field = "hearing_date" THEN value # None /\ value[1] # "" ELSE value

\* the keys of {bill['bill_id']: bill for bill in bills}, in insertion order
RECURSIVE DictKeys(_)
DictKeys(bills) ==
    IF bills = <<>> THEN <<>>
    ELSE LET front == DictKeys(SubSeq(bills, 1, Len(bills) - 1))
             bill_id == bills[Len(bills)].bill_id
         IN  IF \E k \in DOMAIN front : front[k] = bill_id THEN front
             ELSE Append(front, bill_id)

\* the dictionary's value at bill_id: the last bill listed under that id
DictValue(bills, bill_id) ==
    bills[CHOOSE i \in DOMAIN bills :
             /\ bills[i].bill_id = bill_id
             /\ \A j \in DOMAIN bills : bills[j].bill_id = bill_id => j <= i]

\* [key for key in keys if key in wanted]
RECURSIVE KeysIn(_, _)
KeysIn(keys, wanted) ==
    IF keys = <<>> THEN <<>>
    ELSE (IF Head(keys) \in wanted THEN <<Head(keys)>> ELSE <<>>) \o KeysIn(Tail(keys), wanted)

\* _calculate_compliance_rate(bills), in hundredths of a percent
_calculate_compliance_rate(bills) ==
    RoundedRate(Cardinality({i \in DOMAIN bills :
                                LOWER(bills[i].state) \in {"compliant", "unknown"}}),
                Len(bills))

\* round(x, 1) of a number given in hundredths, in tenths (a half, which
\* needs sixteen bills, does not arise)
RoundTenths(hundredths) ==
    IF hundredths >= 0 THEN (hundredths + 5) \div 10 ELSE -((5 - hundredths) \div 10)

\* a change test that forgets the previous snapshot
NewlyTruthyIgnoringPrevious(field, current_bill, prev_bill) ==
    Truthy(field, current_bill[field])

\* current_bill.get(field) and not prev_bill.get(field)
NewlyTruthy(field, current_bill, prev_bill) ==
    Truthy(field, current_bill[field]) /\ ~Truthy(field, prev_bill[field])

\* _calculate_diff_report(current_bills, previous_bills, current_date,
\* previous_date, time_interval, analysis)
_calculate_diff_report(current_bills, previous_bills, current_date, previous_date, time_interval, analysis) ==
    LET current_dict == DictKeys(current_bills)
        previous_dict == {previous_bills[i].bill_id : i \in DOMAIN previous_bills}
        current_ids == {current_bills[i].bill_id : i \in DOMAIN current_bills}
        new_bills == KeysIn(current_dict, current_ids \ previous_dict)
        Changed(field) ==
            KeysIn(current_dict,
                   {bill_id \in current_ids \cap previous_dict :
                       NewlyTruthy(field, DictValue(current_bills, bill_id),
                                   DictValue(previous_bills, bill_id))})
    IN  [time_interval |-> time_interval,
         previous_date |-> DATE(previous_date),
         current_date |-> DATE(current_date),
         compliance_delta |-> RoundTenths(_calculate_compliance_rate(current_bills)
                                          - _calculate_compliance_rate(previous_bills)),
         new_bills_count |-> Len(new_bills),
         new_bills |-> new_bills,
         bills_with_new_hearings |-> Changed("hearing_date"),
         bills_reported_out |-> Changed("reported_out"),
         bills_with_new_summaries |-> Changed("summary_present"),
         bills_with_new_votes |-> Changed("votes_present"),
         analysis |-> analysis]

\* generated_at < target_date as the database compares them.  PostgreSQL
\* compares instants.  SQLite compares the stored text
\* 'YYYY-MM-DDTHH:MM:SS...Z' with the bound datetime's text
\* 'YYYY-MM-DD HH:MM:SS...': equal days are decided by 'T' > ' '.
EarlierThan(db_type, generated_at, target_date) ==
    IF db_type = "postgresql" THEN generated_at < target_date
    ELSE DATE(generated_at) < DATE(target_date)

\* find_closest_scan_date(target_date): MAX(generated_at) of the committee's
\* rows before target_date, None when there is none
find_closest_scan_date(d, committee_id, target_date) ==
    LET found == {d.bill_compliance[i].generated_at : i \in
                     {i \in DOMAIN d.bill_compliance :
                         /\ d.bill_compliance[i].committee_id = committee_id
                         /\ EarlierThan(d.db_type, d.bill_compliance[i].generated_at,
                                        target_date)}}
    IN  IF found = {} THEN None
        ELSE Some(CHOOSE t \in found : \A u \in found : u <= t)

\* one bill of a snapshot, from a row of bill_compliance
SnapshotBill(row) ==
    [bill_id |-> row.bill_id,
     hearing_date |-> row.hearing_date,
     reported_out |-> row.reported_out # 0,
     summary_present |-> row.summary_present # 0,
     votes_present |-> row.votes_present # 0,
     state |-> row.state,
     generated_at |-> row.generated_at]

\* the rows at the positions in `kept`, each turned into a snapshot bill
RECURSIVE SnapshotBills(_, _, _)
SnapshotBills(rows, kept, i) ==
    IF i > Len(rows) THEN <<>>
    ELSE (IF i \in kept THEN <<SnapshotBill(rows[i])>> ELSE <<>>)
         \o SnapshotBills(rows, kept, i + 1)

\* _get_bills_at_date(cursor, committee_id, target_date): the latest record
\* per bill of the committee at or before target_date
_get_bills_at_date(d, committee_id, target_date) ==
    LET rows == d.bill_compliance
        upto == {i \in DOMAIN rows : /\ rows[i].committee_id = committee_id
                                      /\ rows[i].generated_at <= target_date}
        rn1 == {i \in upto :
                  \A j \in upto :
                      rows[j].bill_id = rows[i].bill_id
                      => \/ rows[j].generated_at < rows[i].generated_at
                         \/ (rows[j].generated_at = rows[i].generated_at /\ j <= i)}
    IN  SnapshotBills(rows, rn1, 1)

\* the report of one interval of `days` days: None when no earlier scan is
\* found
IntervalReport(d, committee_id, current_bills, current_date, days, time_interval, analysis) ==
    LET scan_date == find_closest_scan_date(d, committee_id,
                                            current_date - days * SECONDS_PER_DAY)
    IN  IF scan_date = None THEN None
        ELSE LET previous_bills == _get_bills_at_date(d, committee_id, scan_date[1])
             IN  IF previous_bills = <<>> THEN None
                 ELSE Some(_calculate_diff_report(current_bills, previous_bills,
                                                  current_date, scan_date[1],
                                                  time_interval, analysis))

\* _calculate_diff_reports(cursor, committee_id, current_bills, current_date,
\* analysis, db_type, placeholder)
_calculate_diff_reports(d, committee_id, current_bills, current_date, analysis) ==
    [daily |-> IntervalReport(d, committee_id, current_bills, current_date, 1, "1 day",
                              analysis),
     weekly |-> IntervalReport(d, committee_id, current_bills, current_date, 7, "7 days",
                               None),
     monthly |-> IntervalReport(d, committee_id, current_bills, current_date, 30,
                                "30 days", None)]

\* one entry of current_bills, from an item of the report
CurrentBill(bill) ==
    [bill_id |-> bill.bill_id,
     hearing_date |-> bill.hearing_date,
     reported_out |-> bill.reported_out,
     summary_present |-> bill.summary_present,
     votes_present |-> bill.votes_present,
     state |-> bill.state]

RECURSIVE UpsertBills(_, _)
UpsertBills(bills, items) ==
    IF items = <<>> THEN bills
    ELSE UpsertBills(
            Upsert(bills, Head(items).bill_id,
                   [bill_title |-> Head(items).bill_title, updated_at |-> now]),
            Tail(items))

ComplianceRow(committee_id, bill) ==
    [committee_id |-> committee_id,
     bill_id |-> bill.bill_id,
     hearing_date |-> bill.hearing_date,
     reported_out |-> IF bill.reported_out THEN 1 ELSE 0,
     summary_present |-> IF bill.summary_present THEN 1 ELSE 0,
     votes_present |-> IF bill.votes_present THEN 1 ELSE 0,
     state |-> bill.state,
     generated_at |-> now]

\* import_compliance_report: the committee is auto-created, every bill is
\* upserted and gets one new bill_compliance row, one scan-metadata row is
\* stored, then one commit.  The result is the new database.
import_compliance_report(d, committee_id, bills_data, diff_report) ==
    LET inserted ==
            [d EXCEPT
                !.committees = InsertIgnore(@, committee_id,
                    [name |-> "Committee " \o committee_id, chamber |-> "Joint",
                     updated_at |-> now]),
                !.bills = UpsertBills(@, bills_data),
                !.bill_compliance =
                    @ \o [i \in 1..Len(bills_data) |->
                             ComplianceRow(committee_id, bills_data[i])]]
        current_bills == [i \in 1..Len(bills_data) |-> CurrentBill(bills_data[i])]
        calculated == _calculate_diff_reports(inserted, committee_id, current_bills, now, None)
        \* the client's diff_report, when sent, is the daily report
        diff_reports == [calculated EXCEPT
                            !.daily = IF diff_report # None THEN diff_report ELSE @]
    IN  [inserted EXCEPT
            !.compliance_scan_metadata =
                Append(@, [committee_id |-> committee_id, scan_date |-> now,
                           diff_report |-> diff_reports])]

\* bill.get('reason', '') of a report item: None is JSON null
Reason(bill) == IF "reason" \in DOMAIN bill THEN bill.reason ELSE Some("")

\* the INSERT INTO bill_compliance of the item raises: reason is NOT NULL
InsertRaises(bill) == Reason(bill) = None

\* the INSERT INTO compliance_scan_metadata raises: the client's diff_report
\* is stored as the daily report, and PostgreSQL's jsonb has no \u0000
MetadataRaises(d, diff_report) ==
    /\ d.db_type = "postgresql"
    /\ diff_report # None
    /\ \E k \in DOMAIN diff_report[1].note : diff_report[1].note[k] = "\\u0000"

\* conn.rollback(): the database as it was committed last
rollback(committed, working) == committed

\* conn.commit(): the work of the transaction is kept, unless a statement of
\* the transaction has failed on PostgreSQL, when COMMIT rolls it back
commit(committed, working, aborted) == IF aborted THEN committed ELSE working

\* import_compliance_report(committee_id, bills_data, diff_report): the
\* result dictionary, the database afterwards, and whether the statistics
\* cache was invalidated
ImportOutcome(d, committee_id, bills_data, diff_report) ==
    IF \E i \in DOMAIN bills_data : InsertRaises(bills_data[i])
    THEN [status |-> "error", imported_count |-> None,
          db |-> rollback(d, d), invalidated |-> FALSE]
    ELSE [status |-> "success", imported_count |-> Some(Len(bills_data)),
          db |-> commit(d, import_compliance_report(d, committee_id, bills_data,
                                                    diff_report),
                        MetadataRaises(d, diff_report)),
          invalidated |-> TRUE]

\* import_cache_data: committee_contacts and bill_parsers are upserted
import_cache_data(d, cache_data) ==
    LET contacts == IF "committee_contacts" \in DOMAIN cache_data
                    THEN cache_data["committee_contacts"] ELSE <<>>
        parsers == IF "bill_parsers" \in DOMAIN cache_data
                   THEN cache_data["bill_parsers"] ELSE <<>>
        committee_rows ==
            [i \in 1..Len(contacts) |->
                [name |-> contacts[i].name, chamber |-> contacts[i].chamber,
                 updated_at |-> contacts[i].updated_at]]
        bill_rows ==
            [i \in 1..Len(parsers) |->
                [bill_title |-> parsers[i].title, updated_at |-> parsers[i].updated_at]]
        RECURSIVE PutAll(_, _, _, _)
        PutAll(table, src, rows, i) ==
            IF i > Len(src) THEN table
            ELSE PutAll(Upsert(table, src[i].id, rows[i]), src, rows, i + 1)
    IN  [d EXCEPT
            !.committees = PutAll(@, contacts, committee_rows, 1),
            !.bills = PutAll(@, parsers, bill_rows, 1)]

\* import_changelog_data for one changelog entry: a known version has its
\* entries replaced and its row updated, a new version is inserted
ImportChangelogEntry(d, entry, user_agent) ==
    LET known == {i \in 1..Len(d.changelog_versions) :
                    d.changelog_versions[i].version = entry.version}
        version_id == IF known # {} THEN CHOOSE i \in known : TRUE
                      ELSE Len(d.changelog_versions) + 1
        row == [version |-> entry.version, date |-> entry.date,
                user_agent |-> user_agent, received_at |-> now]
        kept == SelectSeq(d.changelog_entries, LAMBDA e : e.version_id # version_id)
        added == [i \in 1..Len(entry.changes) |->
                    [version_id |-> version_id,
                     category |-> entry.changes[i].category,
                     description |-> entry.changes[i].description]]
    IN  [d EXCEPT
            !.changelog_versions =
                IF known # {} THEN [@ EXCEPT ![version_id] = row] ELSE Append(@, row),
            !.changelog_entries = kept \o added]

RECURSIVE ImportChangelogEntries(_, _, _)
ImportChangelogEntries(d, entries, user_agent) ==
    IF entries = <<>> THEN d
    ELSE ImportChangelogEntries(
            ImportChangelogEntry(d, Head(entries), user_agent), Tail(entries), user_agent)

import_changelog_data(d, data) ==
    ImportChangelogEntries(d,
        IF "changelog" \in DOMAIN data THEN data["changelog"] ELSE <<>>,
        IF "user_agent" \in DOMAIN data THEN data["user_agent"] ELSE "")


(***************************************************************************)
(* Requests and responses.                                                 *)
(***************************************************************************)
NoRequest == [op |-> "none"]
NoResponse == [status |-> 0]

Idle == request = NoRequest
Handled == request # NoRequest

\* the tables of both databases
Tables == <<users, email_tokens, signing_keys, db>>

(***************************************************************************)
(* Ingest: documents, requests, signature check, handlers.                 *)
(***************************************************************************)
Bill1 ==
    [bill_id |-> "H100", bill_title |-> "An Act", hearing_date |-> None,
     reported_out |-> FALSE, summary_present |-> TRUE, votes_present |-> FALSE,
     state |-> "compliant"]

BasicReport == ("committee_id" :> "J10") @@ ("bills" :> <<Bill1>>)

CacheData ==
    ("committee_contacts" :>
        <<[id |-> "J10", name |-> "Judiciary", chamber |-> "Joint", updated_at |-> 0]>>)
    @@ ("bill_parsers" :> <<[id |-> "H100", title |-> "An Act (parsed)", updated_at |-> 0]>>)

ChangelogData ==
    ("current_version" :> "1.0.0") @@ ("user_agent" :> "tracker/1.0.0")
    @@ ("changelog" :>
        <<[version |-> "1.0.0", date |-> "2025-10-28",
           changes |-> <<[category |-> "added", description |-> "first release"]>>]>>)

PATH_CACHE == "/ingest/cache"
PATH_BASIC == "/ingest/basic"
PATH_CHANGELOG == "/ingest/changelog"
IngestPaths == {PATH_CACHE, PATH_BASIC, PATH_CHANGELOG}

\* the bodies sent to an ingest endpoint: null, {}, the endpoint's document
BodiesFor(path) ==
    {RawBody(JsonNull, FALSE), RawBody(JsonObject(EmptyObject), FALSE)}
    \cup (IF path = PATH_BASIC
          THEN {RawBody(JsonObject(BasicReport), FALSE), RawBody(JsonObject(BasicReport), TRUE)}
          ELSE IF path = PATH_CACHE
          THEN {RawBody(JsonObject(CacheData), FALSE)}
          ELSE {RawBody(JsonObject(ChangelogData), FALSE)})

\* X-Ingest-Timestamp values: "0", " 0", "300", "301", and the non-integer "3x"
IntegerTimestamps == {<<"0">>, <<" ", "0">>, <<"3", "0", "0">>, <<"3", "0", "1">>}
TimestampHeaders == IntegerTimestamps \cup {<<"3", "x">>}

KeyIdHeaders == {KeyIdOf(n) : n \in 1..MaxKeys}
Secrets == {SecretOf(n) : n \in 1..MaxKeys} \cup {"guess"}

\* a signed message that leaves the path out
SignedMessageWithoutPath(timestamp, method, path, body_hash) ==
    timestamp \o <<".", method, ".", body_hash>>

\* the message the code signs: f"{timestamp}.{method}.{path}.{body_hash}"
SignedMessage(timestamp, method, path, body_hash) ==
    timestamp \o <<".", method, ".", path, ".", body_hash>>

\* The submitting client (not part of this repository) signs the same
\* message layout over the compact serialisation of the document it sends.
ClientMessage(timestamp, method, path, body_hash) ==
    timestamp \o <<".", method, ".", path, ".", body_hash>>

ClientSignature(secret, timestamp, method, path, body) ==
    hmac_sha256(secret,
        ClientMessage(timestamp, method, path, sha256(json_dumps(body.doc))))

IngestRequest(path, key_id, timestamp, signature, body) ==
    [op |-> "ingest", method |-> "POST", path |-> path, key_id |-> key_id,
     timestamp |-> timestamp, signature |-> signature, body |-> body]

\* the endpoint's own document
DocumentFor(path) ==
    IF path = PATH_BASIC THEN BasicReport
    ELSE IF path = PATH_CACHE THEN CacheData ELSE ChangelogData

\* A correctly signed request of the n-th key and the same request with a
\* header dropped, a non-integer timestamp or a signature made with a
\* secret that is not the key's.
IngestRequests ==
    UNION { LET good == ClientSignature(SecretOf(n), ts, "POST", path, body)
                R(k, t, sig) == IngestRequest(path, k, t, sig, body)
            IN  {R(KeyIdOf(n), ts, good),
                 R("", ts, good), R(KeyIdOf(n), <<>>, good), R(KeyIdOf(n), ts, NoSignature),
                 R(KeyIdOf(n), <<"3", "x">>,
                   ClientSignature(SecretOf(n), <<"3", "x">>, "POST", path, body)),
                 R(KeyIdOf(n), ts, ClientSignature("guess", ts, "POST", path, body))}
          : n \in 1..MaxKeys, ts \in {<<"0">>, <<"3", "0", "1">>}, path \in IngestPaths,
            body \in {RawBody(JsonNull, FALSE)}
                     \cup {RawBody(JsonObject(DocumentFor(p)), FALSE) : p \in IngestPaths} }

\* Requests to POST /ingest/basic whose signature was made by the holder of
\* some secret over a tuple (timestamp, method, path, body) that differs from
\* the request in at most one component.
ReplayRequests ==
    UNION { LET R(sig) == IngestRequest(PATH_BASIC, KeyIdOf(n), ts, sig, body)
            IN  {R(ClientSignature(s, ts, "POST", PATH_BASIC, body)) : s \in Secrets}
                \cup {R(ClientSignature(SecretOf(n), t2, "POST", PATH_BASIC, body)) :
                        t2 \in TimestampHeaders}
                \cup {R(ClientSignature(SecretOf(n), ts, m2, PATH_BASIC, body)) :
                        m2 \in {"GET", "PUT"}}
                \cup {R(ClientSignature(SecretOf(n), ts, "POST", p2, body)) :
                        p2 \in IngestPaths}
                \cup {R(ClientSignature(SecretOf(n), ts, "POST", PATH_BASIC, b2)) :
                        b2 \in BodiesFor(PATH_BASIC)}
          : n \in 1..MaxKeys, ts \in TimestampHeaders, body \in BodiesFor(PATH_BASIC) }

TIMESTAMP_WINDOW == 300

\* a revocation test that lets every key through
revoked_at_ignored(signing_key) == FALSE

\* `if signing_key.revoked_at:` : the column holds a datetime
revoked_at_set(signing_key) == signing_key.revoked_at # None

VerifyFailed(error_msg) == [is_valid |-> FALSE, error_msg |-> error_msg, key_record |-> None]

\* verify_ingest_signature(request): (is_valid, error_message, key_record)
verify_ingest_signature(req) ==
    LET key_id == req.key_id
        timestamp == req.timestamp
        signature == req.signature
    IN
    IF key_id = "" \/ timestamp = <<>> \/ signature = NoSignature
    THEN VerifyFailed("Missing required signature headers (X-Ingest-Key-Id, X-Ingest-Timestamp, X-Ingest-Signature)")
    ELSE
    LET request_time == PyInt(timestamp)
        current_time == now
    IN
    IF ~request_time.ok
    THEN VerifyFailed("Invalid timestamp format")
    ELSE IF Abs(current_time - request_time.val) > TIMESTAMP_WINDOW
    THEN VerifyFailed("Request timestamp too old or too far in future")
    ELSE
    LET found == {i \in 1..Len(signing_keys) : signing_keys[i].key_id = key_id}
    IN
    IF found = {}
    THEN VerifyFailed("Invalid signing key ID")
    ELSE
    LET id == CHOOSE i \in found : TRUE
        signing_key == signing_keys[id]
    IN
    IF revoked_at_set(signing_key)
    THEN VerifyFailed("Signing key has been revoked")
    ELSE
    LET secret == signing_key.secret
        method == req.method
        path == req.path
        parsed == get_json(req.body)
        body == IF parsed = None THEN EmptyObject ELSE parsed[1]
        body_json == json_dumps(JsonObject(body))
        body_hash == sha256(body_json)
        message == SignedMessage(timestamp, method, path, body_hash)
        expected_sig == hmac_sha256(secret, message)
    IN
    IF signature # expected_sig
    THEN VerifyFailed("Invalid signature")
    ELSE [is_valid |-> TRUE, error_msg |-> "",
          key_record |-> Some([id |-> id, user_id |-> signing_key.user_id,
                               key_id |-> signing_key.key_id])]

IngestResponse(status, message, verdict) ==
    [status |-> status, message |-> message, is_valid |-> verdict.is_valid]

\* jsonify(result): 200 for status success, 500 otherwise
ImportAnswer(result, verdict) ==
    [status |-> IF result.status = "success" THEN 200 ELSE 500,
     message |-> IF result.status = "success" THEN "Successfully imported bills"
                 ELSE "Database error",
     is_valid |-> verdict.is_valid,
     imported_count |-> result.imported_count]

AuthFailed(verdict) ==
    IngestResponse(401, "Authentication failed: " \o verdict.error_msg, verdict)

\* request.get_json() is falsy: None or the empty object
NoData(data) == data = None \/ data[1] = EmptyObject

\* bill_compliance is kept within MaxRows rows: a request that would be
\* imported is sent only while there is room
RoomFor(req) ==
    Len(db.bill_compliance) < MaxRows \/ ~verify_ingest_signature(req).is_valid

\* POST /ingest/cache
ingest_cache(req) ==
    /\ Idle
    /\ req.path = PATH_CACHE
    /\ request' = req
    /\ LET verdict == verify_ingest_signature(req)
           data == get_json(req.body)
       IN  IF ~verdict.is_valid
           THEN /\ response' = AuthFailed(verdict)
                /\ UNCHANGED db
           ELSE IF NoData(data)
           THEN /\ response' = IngestResponse(400, "No JSON data provided", verdict)
                /\ UNCHANGED db
           ELSE /\ db' = import_cache_data(db, data[1])
                /\ response' = IngestResponse(200, "Successfully imported cache data", verdict)
    /\ UNCHANGED <<users, email_tokens, tokens_issued, outbox, signing_keys, stats_cache, now, saved_views, inflight, workers>>

\* POST /ingest/basic
ingest_basic(req) ==
    /\ Idle
    /\ req.path = PATH_BASIC
    /\ request' = req
    /\ LET verdict == verify_ingest_signature(req)
           data == get_json(req.body)
       IN  IF ~verdict.is_valid
           THEN /\ response' = AuthFailed(verdict)
                /\ UNCHANGED <<db, stats_cache>>
           ELSE IF NoData(data)
           THEN /\ response' = IngestResponse(400, "No JSON data provided", verdict)
                /\ UNCHANGED <<db, stats_cache>>
           ELSE
           LET committee_id == Get(data[1], "committee_id")
               items == IF "bills" \in DOMAIN data[1] THEN Get(data[1], "bills")
                        ELSE Get(data[1], "items")
           IN  IF committee_id = None \/ committee_id[1] = ""
               THEN /\ response' = IngestResponse(400, "committee_id is required", verdict)
                    /\ UNCHANGED <<db, stats_cache>>
               ELSE IF items = None
               THEN /\ response' = IngestResponse(400,
                                     "Expected 'items' or 'bills' to be an array", verdict)
                    /\ UNCHANGED <<db, stats_cache>>
               ELSE
               LET diff_report == IF "bills" \in DOMAIN data[1]
                                  THEN Get(data[1], "diff_report") ELSE None
                   result == ImportOutcome(db, committee_id[1], items[1], diff_report)
               IN  /\ db' = result.db
                   /\ stats_cache' = IF result.invalidated THEN _invalidate_stats_cache
                                     ELSE stats_cache
                   /\ response' = ImportAnswer(result, verdict)
    /\ UNCHANGED <<users, email_tokens, tokens_issued, outbox, signing_keys, now, saved_views, inflight, workers>>

\* POST /ingest/changelog
ingest_changelog(req) ==
    /\ Idle
    /\ req.path = PATH_CHANGELOG
    /\ request' = req
    /\ LET verdict == verify_ingest_signature(req)
           data == get_json(req.body)
       IN  IF ~verdict.is_valid
           THEN /\ response' = AuthFailed(verdict)
                /\ UNCHANGED db
           ELSE IF NoData(data)
           THEN /\ response' = IngestResponse(400, "No JSON data provided", verdict)
                /\ UNCHANGED db
           ELSE IF Get(data[1], "current_version") \in {None, Some("")}
           THEN /\ response' = IngestResponse(400, "current_version is required", verdict)
                /\ UNCHANGED db
           ELSE /\ db' = import_changelog_data(db, data[1])
                /\ response' = IngestResponse(200, "Changelog received successfully", verdict)
    /\ UNCHANGED <<users, email_tokens, tokens_issued, outbox, signing_keys, stats_cache, now, saved_views, inflight, workers>>

\* the response is returned and the request context ends
send_response ==
    /\ Handled
    /\ request' = NoRequest
    /\ response' = NoResponse
    /\ UNCHANGED <<users, email_tokens, tokens_issued, outbox, signing_keys, db, stats_cache, now, saved_views, inflight, workers>>

\* the clock advances by d seconds, up to `limit`
Tick(d, limit) ==
    /\ Idle
    /\ now + d <= limit
    /\ now' = now + d
    /\ UNCHANGED <<users, email_tokens, tokens_issued, outbox, signing_keys, db, stats_cache, request, response, saved_views, inflight, workers>>


(***************************************************************************)
(* JWT-protected API requests.  `identity` is the user id carried by the   *)
(* access token (get_jwt_identity, converted back with int()).             *)
(***************************************************************************)
ApiRequest(op, identity, arg) == [op |-> op, identity |-> identity, arg |-> arg]

ApiError(status, error) == [status |-> status, error |-> error, body |-> <<>>]
ApiOk(status, body) == [status |-> status, error |-> "", body |-> body]

\* role_hierarchy of User.has_role; a role it does not list has rank -1
RoleRank(role) ==
    CASE role = ROLE_USER -> 0
      [] role = ROLE_PRIVILEGED -> 1
      [] role = ROLE_ADMIN -> 2
      [] OTHER -> -1

\* a has_role that wants a strictly higher role
has_role_strict(user, role) ==
    LET mine == RoleRank(user.role)
        wanted == IF role \in VALID_ROLES THEN RoleRank(role) ELSE 999
    IN  mine > wanted

\* User.has_role(role): role or higher
has_role(user, role) ==
    LET mine == RoleRank(user.role)
        wanted == IF role \in VALID_ROLES THEN RoleRank(role) ELSE 999
    IN  mine >= wanted

\* User.can_manage_users
can_manage_users(user) == user.role = ROLE_ADMIN

\* User.can_generate_keys
can_generate_keys(user) == user.role \in {ROLE_PRIVILEGED, ROLE_ADMIN}

\* keys_routes.get_current_user: the active user of the token, or None
get_current_user(identity) ==
    LET user == UserGet(identity)
    IN  IF user = None \/ ~user[1].is_active THEN None ELSE user

\* keys_routes.require_key_permissions: (user, error_response)
require_key_permissions(identity) ==
    LET user == get_current_user(identity)
    IN  IF user = None
        THEN [user |-> None, error |-> Some(ApiError(401, "User not found or inactive"))]
        ELSE IF ~can_generate_keys(user[1])
        THEN [user |-> None,
              error |-> Some(ApiError(403, "Insufficient permissions. Privileged role required."))]
        ELSE [user |-> user, error |-> None]

\* a serialisation that always carries the secret
to_dict_with_secret(key, include_secret) ==
    [id |-> key.id, key_id |-> key.key_id, created_at |-> key.created_at,
     revoked_at |-> key.revoked_at, is_revoked |-> key.revoked_at # None,
     secret |-> Some(key.secret)]

\* SigningKey.to_dict(include_secret)
to_dict(key, include_secret) ==
    [id |-> key.id, key_id |-> key.key_id, created_at |-> key.created_at,
     revoked_at |-> key.revoked_at, is_revoked |-> is_revoked(key),
     secret |-> IF include_secret /\ ~is_revoked(key) THEN Some(key.secret) ELSE None]

\* POST /api/keys
generate_signing_key(req) ==
    /\ Idle
    /\ request' = req
    /\ LET perm == require_key_permissions(req.identity)
           n == Len(signing_keys) + 1
           pair == generate_key_pair(n)
           signing_key == [id |-> n, user_id |-> req.identity, key_id |-> pair[1],
                           secret |-> pair[2], created_at |-> now, revoked_at |-> None]
       IN  IF perm.error # None
           THEN /\ response' = perm.error[1]
                /\ UNCHANGED signing_keys
           ELSE /\ signing_keys' = Append(signing_keys, signing_key)
                /\ response' = ApiOk(201, <<to_dict(signing_key, TRUE)>>)
    /\ UNCHANGED <<users, email_tokens, tokens_issued, outbox, db, stats_cache, now, saved_views, inflight, workers>>

\* the ids of the keys of one user, newest first
RECURSIVE KeysOf(_, _, _)
KeysOf(user_id, include_revoked, i) ==
    IF i = 0 THEN <<>>
    ELSE (IF signing_keys[i].user_id = user_id
             /\ (include_revoked \/ signing_keys[i].revoked_at = None)
          THEN <<signing_keys[i]>> ELSE <<>>)
         \o KeysOf(user_id, include_revoked, i - 1)

\* GET /api/keys
list_signing_keys(req) ==
    /\ Idle
    /\ request' = req
    /\ LET perm == require_key_permissions(req.identity)
           keys == KeysOf(req.identity, req.arg, Len(signing_keys))
       IN  IF perm.error # None
           THEN response' = perm.error[1]
           ELSE response' = ApiOk(200, [i \in 1..Len(keys) |-> to_dict(keys[i], FALSE)])
    /\ UNCHANGED <<users, email_tokens, tokens_issued, outbox, signing_keys, db, stats_cache, now, saved_views, inflight, workers>>

\* GET /api/keys/<key_id>
get_signing_key(req) ==
    /\ Idle
    /\ request' = req
    /\ LET perm == require_key_permissions(req.identity)
           key_id == req.arg
           owned == key_id \in 1..Len(signing_keys)
                    /\ signing_keys[key_id].user_id = req.identity
       IN  IF perm.error # None
           THEN response' = perm.error[1]
           ELSE IF ~owned
           THEN response' = ApiError(404, "Signing key not found")
           ELSE response' = ApiOk(200, <<to_dict(signing_keys[key_id], FALSE)>>)
    /\ UNCHANGED <<users, email_tokens, tokens_issued, outbox, signing_keys, db, stats_cache, now, saved_views, inflight, workers>>

\* PATCH /api/keys/<key_id>/revoke
revoke_signing_key(req) ==
    /\ Idle
    /\ request' = req
    /\ LET perm == require_key_permissions(req.identity)
           key_id == req.arg
           owned == key_id \in 1..Len(signing_keys)
                    /\ signing_keys[key_id].user_id = req.identity
       IN  IF perm.error # None
           THEN /\ response' = perm.error[1]
                /\ UNCHANGED signing_keys
           ELSE IF ~owned
           THEN /\ response' = ApiError(404, "Signing key not found")
                /\ UNCHANGED signing_keys
           ELSE IF is_revoked(signing_keys[key_id])
           THEN /\ response' = ApiError(400, "Signing key is already revoked")
                /\ UNCHANGED signing_keys
           ELSE /\ signing_keys' = [signing_keys EXCEPT ![key_id] = revoke(@)]
                /\ response' = ApiOk(200, <<to_dict(revoke(signing_keys[key_id]), FALSE)>>)
    /\ UNCHANGED <<users, email_tokens, tokens_issued, outbox, db, stats_cache, now, saved_views, inflight, workers>>

\* PATCH /api/keys/admin/revoke/<key_id>
admin_revoke_signing_key(req) ==
    /\ Idle
    /\ request' = req
    /\ LET user == get_current_user(req.identity)
           key_id == req.arg
       IN  IF user = None
           THEN /\ response' = ApiError(401, "User not found or inactive")
                /\ UNCHANGED signing_keys
           ELSE IF ~can_manage_users(user[1])
           THEN /\ response' = ApiError(403, "Admin permissions required")
                /\ UNCHANGED signing_keys
           ELSE IF key_id \notin 1..Len(signing_keys)
           THEN /\ response' = ApiError(404, "Signing key not found")
                /\ UNCHANGED signing_keys
           ELSE IF is_revoked(signing_keys[key_id])
           THEN /\ response' = ApiError(400, "Signing key is already revoked")
                /\ UNCHANGED signing_keys
           ELSE /\ signing_keys' = [signing_keys EXCEPT ![key_id] = revoke(@)]
                /\ response' = ApiOk(200, <<to_dict(revoke(signing_keys[key_id]), FALSE)>>)
    /\ UNCHANGED <<users, email_tokens, tokens_issued, outbox, db, stats_cache, now, saved_views, inflight, workers>>

(***************************************************************************)
(* Account routes (auth_routes.py).  The JSON body of a request is None or *)
(* a parsed object; e-mail addresses are sequences of characters,          *)
(* passwords and tokens are strings.                                       *)
(***************************************************************************)
VERIFICATION_TTL == 86400     \* timedelta(hours=24), seconds
RESET_TTL == 3600             \* timedelta(hours=1), seconds
MIN_PASSWORD_LENGTH == 8

\* the default admin of init_db (ADMIN_EMAIL, ADMIN_PASSWORD) and the
\* addresses that register
AdminEmail == <<"o", "p", "@", "x">>
AdminPassword == "change-this-admin-password"
AnnEmail == <<"a", "n", "@", "x">>
BobEmail == <<"b", "o", "@", "x">>

\* dict.get(key, default)
GetOr(obj, key, default) == IF key \in DOMAIN obj THEN obj[key] ELSE default

\* str.strip().lower()
LowerChar(c) ==
    CASE c = "A" -> "a" [] c = "B" -> "b" [] c = "O" -> "o" [] c = "X" -> "x"
      [] OTHER -> c
Lower(s) == [i \in 1..Len(s) |-> LowerChar(s[i])]
Strip(s) == RStrip(LStrip(s))

\* email_validator.validate_email on a stripped, lower-cased ASCII address:
\* one "@" between a non-empty local part and a non-empty domain; the
\* normalised address it returns is then the address itself
validate_email(email) ==
    /\ Cardinality({i \in 1..Len(email) : email[i] = "@"}) = 1
    /\ email[1] # "@" /\ email[Len(email)] # "@"

\* EmailToken.generate_token for the n-th call: secrets.token_urlsafe(32),
\* a fresh value each time
generate_token(n) == "token_" \o ToString(n)

EmailTokenRow(user_id, token, expires_at, purpose) ==
    [user_id |-> user_id, token |-> token, expires_at |-> expires_at, purpose |-> purpose]

\* an expiry test that never fires
is_expired_never(email_token) == FALSE

\* EmailToken.is_expired
is_expired(email_token) == now > email_token.expires_at

\* a token lookup that forgets the purpose
FindTokenAnyPurpose(token, purpose) ==
    LET rows == {r \in email_tokens : r.token = token}
    IN  IF rows = {} THEN None ELSE Some(CHOOSE r \in rows : TRUE)

\* EmailToken.query.filter_by(token=..., purpose=...).first(); token is unique
FindToken(token, purpose) ==
    LET rows == {r \in email_tokens : r.token = token /\ r.purpose = purpose}
    IN  IF rows = {} THEN None ELSE Some(CHOOSE r \in rows : TRUE)

\* User.query.filter_by(email=...).first(): the id or None; email is unique
FindUser(email) ==
    LET ids == {i \in 1..Len(users) : users[i].email = email}
    IN  IF ids = {} THEN None ELSE Some(CHOOSE i \in ids : TRUE)

\* User.to_dict
UserDict(id) ==
    [id |-> id, email |-> users[id].email, role |-> users[id].role,
     is_active |-> users[id].is_active, created_at |-> users[id].created_at]

\* a mail handed to the SMTP service
Mail(to, kind, token) == [to |-> to, kind |-> kind, token |-> token]

\* POST /api/auth/register; smtp_ok: send_verification_email did not raise
register(req, smtp_ok) ==
    /\ Idle
    /\ request' = req
    /\ LET data == req.arg
           email == Lower(Strip(GetOr(data[1], "email", <<>>)))
           password == GetOr(data[1], "password", "")
           user_id == Len(users) + 1
           token == generate_token(tokens_issued + 1)
       IN  IF NoData(data)
           THEN /\ response' = ApiError(400, "No JSON data provided")
                /\ UNCHANGED <<users, email_tokens, tokens_issued, outbox>>
           ELSE IF email = <<>> \/ password = ""
           THEN /\ response' = ApiError(400, "Email and password are required")
                /\ UNCHANGED <<users, email_tokens, tokens_issued, outbox>>
           ELSE IF ~validate_email(email)
           THEN /\ response' = ApiError(400, "Invalid email")
                /\ UNCHANGED <<users, email_tokens, tokens_issued, outbox>>
           ELSE IF Len(password) < MIN_PASSWORD_LENGTH
           THEN /\ response' = ApiError(400, "Password must be at least 8 characters long")
                /\ UNCHANGED <<users, email_tokens, tokens_issued, outbox>>
           ELSE IF FindUser(email) # None
           THEN /\ response' = ApiError(409, "Email already registered")
                /\ UNCHANGED <<users, email_tokens, tokens_issued, outbox>>
           ELSE /\ users' = Append(users, UserRow(email, password, ROLE_USER, FALSE, now))
                /\ tokens_issued' = tokens_issued + 1
                /\ email_tokens' = email_tokens \cup
                       {EmailTokenRow(user_id, token, now + VERIFICATION_TTL,
                                      PURPOSE_VERIFICATION)}
                /\ outbox' = IF smtp_ok
                             THEN outbox \cup {Mail(email, PURPOSE_VERIFICATION, token)}
                             ELSE outbox
                /\ response' = ApiOk(201, [user_id |-> user_id, email |-> email])
    /\ UNCHANGED <<signing_keys, db, stats_cache, now, saved_views, inflight, workers>>

\* the answers of verify_email: JSON for an API call (Accept:
\* application/json), otherwise a redirect to the frontend login page
VerifyAnswer(accept_json, status, error) ==
    IF accept_json THEN [status |-> status, error |-> error, body |-> <<>>]
    ELSE [status |-> 302, error |-> error, body |-> <<>>]

\* GET|POST /api/auth/verify/<token>
verify_email(req) ==
    /\ Idle
    /\ request' = req
    /\ LET email_token == FindToken(req.arg.token, PURPOSE_VERIFICATION)
           accept_json == req.arg.accept_json
       IN  IF email_token = None
           THEN /\ response' = VerifyAnswer(accept_json, 400, "invalid_token")
                /\ UNCHANGED <<users, email_tokens>>
           ELSE IF is_expired(email_token[1])
           THEN /\ email_tokens' = email_tokens \ {email_token[1]}
                /\ response' = VerifyAnswer(accept_json, 400, "expired")
                /\ UNCHANGED users
           ELSE /\ users' = [users EXCEPT ![email_token[1].user_id].is_active = TRUE]
                /\ email_tokens' = email_tokens \ {email_token[1]}
                /\ response' = VerifyAnswer(accept_json, 200, "")
    /\ UNCHANGED <<tokens_issued, outbox, signing_keys, db, stats_cache, now, saved_views, inflight, workers>>

\* a password check that accepts anything
check_password_hash_any(pw_hash, password) == TRUE

\* werkzeug check_password_hash: true exactly for the password hashed
check_password_hash(pw_hash, password) == pw_hash = generate_password_hash(password)

\* create_access_token(identity=str(user.id))
create_access_token(identity) == [identity |-> identity]

\* POST /api/auth/login
login(req) ==
    /\ Idle
    /\ request' = req
    /\ LET data == req.arg
           email == Lower(Strip(GetOr(data[1], "email", <<>>)))
           password == GetOr(data[1], "password", "")
           user == FindUser(email)
       IN  IF NoData(data)
           THEN response' = ApiError(400, "No JSON data provided")
           ELSE IF email = <<>> \/ password = ""
           THEN response' = ApiError(400, "Email and password are required")
           ELSE IF user = None
           THEN response' = ApiError(401, "Invalid email or password")
           ELSE IF ~check_password_hash(users[user[1]].pw_hash, password)
           THEN response' = ApiError(401, "Invalid email or password")
           ELSE IF ~users[user[1]].is_active
           THEN response' = ApiError(401, "Account not verified. Please check your email or contact support.")
           ELSE response' = ApiOk(200, [access_token |-> create_access_token(user[1]),
                                         user |-> UserDict(user[1])])
    /\ UNCHANGED <<users, email_tokens, tokens_issued, outbox, signing_keys, db,
                   stats_cache, now, saved_views, inflight, workers>>

ResetInstructions ==
    "If an account exists with this email, you will receive password reset instructions."

\* an answer that tells the caller the address is unknown
UnknownAccountRevealed(message) == ApiError(404, "User not found")

\* jsonify({'message': ...}), 200
MessageOk(message) == ApiOk(200, [message |-> message])

\* POST /api/auth/forgot-password; smtp_ok: send_password_reset_email did
\* not raise
forgot_password(req, smtp_ok) ==
    /\ Idle
    /\ request' = req
    /\ LET data == req.arg
           email == Lower(Strip(GetOr(data[1], "email", <<>>)))
           user == FindUser(email)
           token == generate_token(tokens_issued + 1)
       IN  IF NoData(data)
           THEN /\ response' = ApiError(400, "No JSON data provided")
                /\ UNCHANGED <<email_tokens, tokens_issued, outbox>>
           ELSE IF email = <<>>
           THEN /\ response' = ApiError(400, "Email is required")
                /\ UNCHANGED <<email_tokens, tokens_issued, outbox>>
           ELSE IF user = None
           THEN /\ response' = MessageOk(ResetInstructions)
                /\ UNCHANGED <<email_tokens, tokens_issued, outbox>>
           ELSE /\ tokens_issued' = tokens_issued + 1
                /\ email_tokens' =
                       {r \in email_tokens :
                           ~(r.user_id = user[1] /\ r.purpose = PURPOSE_PASSWORD_RESET)}
                       \cup {EmailTokenRow(user[1], token, now + RESET_TTL,
                                           PURPOSE_PASSWORD_RESET)}
                /\ outbox' = IF smtp_ok
                             THEN outbox \cup {Mail(email, PURPOSE_PASSWORD_RESET, token)}
                             ELSE outbox
                /\ response' = ApiOk(200, [message |-> ResetInstructions])
    /\ UNCHANGED <<users, signing_keys, db, stats_cache, now, saved_views, inflight, workers>>

\* POST /api/auth/reset-password
reset_password(req) ==
    /\ Idle
    /\ request' = req
    /\ LET data == req.arg
           token == GetOr(data[1], "token", "")
           new_password == GetOr(data[1], "password", "")
           email_token == FindToken(token, PURPOSE_PASSWORD_RESET)
       IN  IF NoData(data)
           THEN /\ response' = ApiError(400, "No JSON data provided")
                /\ UNCHANGED <<users, email_tokens>>
           ELSE IF token = "" \/ new_password = ""
           THEN /\ response' = ApiError(400, "Token and new password are required")
                /\ UNCHANGED <<users, email_tokens>>
           ELSE IF Len(new_password) < MIN_PASSWORD_LENGTH
           THEN /\ response' = ApiError(400, "Password must be at least 8 characters long")
                /\ UNCHANGED <<users, email_tokens>>
           ELSE IF email_token = None
           THEN /\ response' = ApiError(400, "Invalid or expired reset token")
                /\ UNCHANGED <<users, email_tokens>>
           ELSE IF is_expired(email_token[1])
           THEN /\ email_tokens' = email_tokens \ {email_token[1]}
                /\ response' = ApiError(400, "Reset token has expired. Please request a new one.")
                /\ UNCHANGED users
           ELSE /\ users' = [users EXCEPT ![email_token[1].user_id].pw_hash =
                                              generate_password_hash(new_password)]
                /\ email_tokens' = email_tokens \ {email_token[1]}
                /\ response' = ApiOk(200, [user_id |-> email_token[1].user_id,
                                           email |-> users[email_token[1].user_id].email])
    /\ UNCHANGED <<tokens_issued, outbox, signing_keys, db, stats_cache, now, saved_views, inflight, workers>>

\* auth_routes.require_role(required_role): the error answer, or None when
\* the wrapped handler may run.  The identity of an access token is the
\* str(user.id) that login put there, so int() of it succeeds.
require_role(required_role, identity) ==
    LET user == UserGet(identity)
    IN  IF user = None \/ ~user[1].is_active
        THEN Some(ApiError(401, "User not found or inactive"))
        ELSE IF ~has_role(user[1], required_role)
        THEN Some(ApiError(403, "Insufficient permissions"))
        ELSE None

\* a self-target test that never fires
is_own_id_never(target_id, admin_user_id) == FALSE

\* `target_user.id == admin_user_id`
is_own_id(target_id, admin_user_id) == target_id = admin_user_id

\* PATCH /api/auth/role
update_user_role(req) ==
    /\ Idle
    /\ request' = req
    /\ LET denied == require_role(ROLE_ADMIN, req.identity)
           data == req.arg
           user_id == GetOr(data[1], "user_id", 0)
           new_role == GetOr(data[1], "role", "")
           target_user == UserGet(user_id)
       IN  IF denied # None
           THEN /\ response' = denied[1]
                /\ UNCHANGED users
           ELSE IF NoData(data)
           THEN /\ response' = ApiError(400, "No JSON data provided")
                /\ UNCHANGED users
           ELSE IF user_id = 0 \/ new_role = ""
           THEN /\ response' = ApiError(400, "user_id and role are required")
                /\ UNCHANGED users
           ELSE IF new_role \notin VALID_ROLES
           THEN /\ response' = ApiError(400, "Invalid role")
                /\ UNCHANGED users
           ELSE IF target_user = None
           THEN /\ response' = ApiError(404, "User not found")
                /\ UNCHANGED users
           ELSE IF is_own_id(user_id, req.identity)
           THEN /\ response' = ApiError(400, "Cannot change your own role")
                /\ UNCHANGED users
           ELSE /\ users' = [users EXCEPT ![user_id].role = new_role]
                /\ response' = ApiOk(200, [user_id |-> user_id, role |-> new_role,
                                           old_role |-> users[user_id].role])
    /\ UNCHANGED <<email_tokens, tokens_issued, outbox, signing_keys, db, stats_cache, now, saved_views, inflight, workers>>

\* GET /api/auth/users; the answer lists every user (its order, by
\* created_at, is not modelled)
list_users(req) ==
    /\ Idle
    /\ request' = req
    /\ LET denied == require_role(ROLE_ADMIN, req.identity)
       IN  IF denied # None
           THEN response' = denied[1]
           ELSE response' = ApiOk(200, {UserDict(i) : i \in 1..Len(users)})
    /\ UNCHANGED <<users, email_tokens, tokens_issued, outbox, signing_keys, db,
                   stats_cache, now, saved_views, inflight, workers>>

(***************************************************************************)
(* The ingest scenario: an admin (1), a privileged user (2) and a plain    *)
(* user (3) exist and are active; keys are generated and revoked while     *)
(* signed and defective requests reach the three ingest endpoints.         *)
(***************************************************************************)
IngestUsers ==
    <<UserRow(AdminEmail, AdminPassword, ROLE_ADMIN, TRUE, 0),
      UserRow(AnnEmail, "password1", ROLE_PRIVILEGED, TRUE, 0),
      UserRow(BobEmail, "password1", ROLE_USER, TRUE, 0)>>

InitIngest ==
    /\ users = IngestUsers
    /\ email_tokens = {}
    /\ tokens_issued = 0
    /\ outbox = {}
    /\ signing_keys = <<>>
    /\ db = EmptyDb
    /\ stats_cache = WarmCache
    /\ now = 0
    /\ request = NoRequest
    /\ response = NoResponse
    /\ saved_views = {}
    /\ inflight = {}
    /\ workers = <<>>

NextIngest ==
    \/ /\ Idle
       /\ \E req \in IngestRequests :
            /\ RoomFor(req)
            /\ \/ ingest_cache(req)
               \/ ingest_basic(req)
               \/ ingest_changelog(req)
    \/ /\ Idle
       /\ Len(signing_keys) < MaxKeys
       /\ \E u \in {2, 3} :
            generate_signing_key(ApiRequest("generate_signing_key", u, 0))
    \/ /\ Idle
       /\ \E u \in {2, 3}, k \in 1..MaxKeys :
            revoke_signing_key(ApiRequest("revoke_signing_key", u, k))
    \/ /\ Idle
       /\ \E u \in {1, 2}, k \in 1..MaxKeys :
            admin_revoke_signing_key(ApiRequest("admin_revoke_signing_key", u, k))
    \/ send_response
    \/ Tick(TIMESTAMP_WINDOW + 1, MaxClock)

SpecIngest == InitIngest /\ [][NextIngest]_vars

(***************************************************************************)
(* The signature scenario: the same system, the clock at the edges of the  *)
(* timestamp window, and requests to /ingest/basic that reuse signatures.  *)
(***************************************************************************)
NextSignature ==
    \/ /\ Idle
       /\ \E req \in ReplayRequests :
            /\ RoomFor(req)
            /\ ingest_basic(req)
    \/ /\ Idle
       /\ Len(signing_keys) < MaxKeys
       /\ generate_signing_key(ApiRequest("generate_signing_key", 2, 0))
    \/ /\ Idle
       /\ \E k \in 1..MaxKeys :
            revoke_signing_key(ApiRequest("revoke_signing_key", 2, k))
    \/ send_response
    \/ \E d \in {TIMESTAMP_WINDOW, TIMESTAMP_WINDOW + 1} : Tick(d, MaxClock)

SpecSignature == InitIngest /\ [][NextSignature]_vars


(***************************************************************************)
(* Properties of the ingest endpoints.                                     *)
(***************************************************************************)
IsIngest(req) == req.op = "ingest"

\* the keys whose key_id is the request's X-Ingest-Key-Id
KeysNamed(req) == {i \in 1..Len(signing_keys) : signing_keys[i].key_id = req.key_id}

MissingHeader(req) == req.key_id = "" \/ req.timestamp = <<>> \/ req.signature = NoSignature
UnknownKey(req) == KeysNamed(req) = {}
RevokedKey(req) == \E i \in KeysNamed(req) : signing_keys[i].revoked_at # None

\* the integer a timestamp header denotes, if any
TimestampValue(header) ==
    CASE header \in {<<"0">>, <<" ", "0">>} -> Some(0)
      [] header = <<"3", "0", "0">> -> Some(300)
      [] header = <<"3", "0", "1">> -> Some(301)
      [] OTHER -> None

InWindow(req) ==
    /\ TimestampValue(req.timestamp) # None
    /\ now - TimestampValue(req.timestamp)[1] <= 300
    /\ TimestampValue(req.timestamp)[1] - now <= 300

OutOfWindow(req) == TimestampValue(req.timestamp) # None /\ ~InWindow(req)

\* a null body is verified and signed as the empty object
EffectiveDoc(doc) == IF doc.isnull THEN JsonObject(EmptyObject) ELSE doc

\* the signature the holder of `secret` makes for exactly this request
ExactSignature(secret, req) ==
    ClientSignature(secret, req.timestamp, req.method, req.path,
                    RawBody(EffectiveDoc(req.body.doc), FALSE))

SignatureMismatch(req) ==
    \A i \in KeysNamed(req) : req.signature # ExactSignature(signing_keys[i].secret, req)

Defective(req) ==
    MissingHeader(req) \/ UnknownKey(req) \/ RevokedKey(req) \/ OutOfWindow(req)
    \/ SignatureMismatch(req)

IngestStep == Idle /\ IsIngest(request')

\* C1: an ingest request changes a table (or the stats cache) only if
\* verify_ingest_signature accepted it; a request with a missing header, an
\* unknown or revoked key, an out-of-window timestamp or a mismatching
\* signature is answered 401 and leaves every table unchanged.
C1_IngestNeedsValidSignature ==
    [][IngestStep =>
        /\ (Tables' # Tables \/ stats_cache' # stats_cache) => response'.is_valid
        /\ Defective(request') =>
              /\ response'.status = 401
              /\ ~response'.is_valid
              /\ Tables' = Tables
              /\ stats_cache' = stats_cache]_vars

\* C1 witness: with data already imported, a request signed with a revoked
\* key has been answered 401
C1_Witness ==
    /\ IsIngest(request)
    /\ db # EmptyDb
    /\ RevokedKey(request)
    /\ ~MissingHeader(request) /\ InWindow(request) /\ ~SignatureMismatch(request)
    /\ response.status = 401

RevokeStep(i) ==
    /\ Idle
    /\ request'.op \in {"revoke_signing_key", "admin_revoke_signing_key"}
    /\ request'.arg = i

\* the caller may revoke key i: its active privileged owner, or an active admin
MayRevoke(req, i) ==
    /\ req.identity \in 1..Len(users)
    /\ users[req.identity].is_active
    /\ IF req.op = "revoke_signing_key"
       THEN users[req.identity].role \in {ROLE_PRIVILEGED, ROLE_ADMIN}
            /\ signing_keys[i].user_id = req.identity
       ELSE users[req.identity].role = ROLE_ADMIN

\* C2: once a key's revoked_at is set no step changes it; a further revoke
\* request for it never succeeds and returns 400 to a caller entitled to
\* revoke it; every later ingest request naming the key is rejected.
C2_RevocationIsPermanent ==
    [][\A i \in 1..Len(signing_keys) :
        signing_keys[i].revoked_at # None =>
            /\ Len(signing_keys') >= Len(signing_keys)
            /\ signing_keys'[i] = signing_keys[i]
            /\ RevokeStep(i) =>
                  /\ response'.status # 200
                  /\ MayRevoke(request', i) => response'.status = 400
            /\ (IngestStep /\ request'.key_id = signing_keys[i].key_id) =>
                  /\ response'.status = 401
                  /\ db' = db]_vars

\* C2 witness: a second revoke of a revoked key was answered 400
C2_Witness ==
    /\ request.op \in {"revoke_signing_key", "admin_revoke_signing_key"}
    /\ response.status = 400
    /\ request.arg \in 1..Len(signing_keys)
    /\ signing_keys[request.arg].revoked_at # None
    /\ signing_keys[request.arg].revoked_at # Some(now)

\* C3: a request is accepted only if its timestamp header is an integer t
\* with |now - t| <= 300; otherwise it is answered 401 whatever its signature.
C3_TimestampWindow ==
    (IsIngest(request) /\ response # NoResponse) =>
        /\ response.is_valid => InWindow(request)
        /\ ~InWindow(request) => response.status = 401 /\ ~response.is_valid

\* C3 witness: a request of a live key, correctly signed over a timestamp
\* 301 seconds old, has been rejected
C3_Witness ==
    /\ IsIngest(request)
    /\ now = 301 /\ request.timestamp = <<"0">>
    /\ ~UnknownKey(request) /\ ~RevokedKey(request) /\ ~SignatureMismatch(request)
    /\ response.status = 401


\* the tuple a signature header was made over
SignedTimestamp(sig) == SubSeq(sig.mac_msg, 1, Len(sig.mac_msg) - 6)
SignedMethod(sig) == sig.mac_msg[Len(sig.mac_msg) - 4]
SignedPath(sig) == sig.mac_msg[Len(sig.mac_msg) - 2]
SignedDoc(sig) == sig.mac_msg[Len(sig.mac_msg)].sha256_of.doc

\* the signature was made with the secret of the key the request names
MadeWithKeySecret(req) ==
    /\ req.signature # NoSignature
    /\ \E i \in KeysNamed(req) : req.signature.mac_key = signing_keys[i].secret

PassesEarlierChecks(req) ==
    ~MissingHeader(req) /\ InWindow(req) /\ ~UnknownKey(req) /\ ~RevokedKey(req)

InvalidSignature == "Authentication failed: Invalid signature"

\* C4 as stated: a request that carries a signature made with the key's
\* secret over another timestamp, method, path or JSON body is rejected
\* with 'Invalid signature'.
C4_Original ==
    (/\ IsIngest(request) /\ response # NoResponse
     /\ MadeWithKeySecret(request)
     /\ \/ SignedTimestamp(request.signature) # request.timestamp
        \/ SignedMethod(request.signature) # request.method
        \/ SignedPath(request.signature) # request.path
        \/ SignedDoc(request.signature) # request.body.doc)
    => response.message = InvalidSignature

\* C4 amended: a request is accepted only with the HMAC, under its key's
\* secret, of its own timestamp header, method, path and parsed body (null
\* read as {}), and such a request passing the earlier checks is accepted; a
\* signature over another tuple is answered 401, with 'Invalid signature'
\* when the header, timestamp-window and key checks pass.
C4_SignatureBindsRequest ==
    (IsIngest(request) /\ response # NoResponse) =>
        /\ response.is_valid =>
              \E i \in KeysNamed(request) :
                  request.signature = ExactSignature(signing_keys[i].secret, request)
        /\ (PassesEarlierChecks(request) /\ ~SignatureMismatch(request)) => response.is_valid
        /\ (/\ MadeWithKeySecret(request)
            /\ \/ SignedTimestamp(request.signature) # request.timestamp
               \/ SignedMethod(request.signature) # request.method
               \/ SignedPath(request.signature) # request.path
               \/ EffectiveDoc(SignedDoc(request.signature)) # EffectiveDoc(request.body.doc))
           => /\ response.status = 401
              /\ ~response.is_valid
              /\ PassesEarlierChecks(request) => response.message = InvalidSignature

\* C4 witness: a signature the key's holder made for /ingest/cache, sent to
\* /ingest/basic with everything else in order, was answered 'Invalid
\* signature'
C4_Witness ==
    /\ IsIngest(request)
    /\ PassesEarlierChecks(request)
    /\ MadeWithKeySecret(request)
    /\ SignedPath(request.signature) = PATH_CACHE /\ request.path = PATH_BASIC
    /\ SignedTimestamp(request.signature) = request.timestamp
    /\ response.message = InvalidSignature


(***************************************************************************)
(* The account scenario: the database holds the default admin; people      *)
(* register, verify, log in, ask for and use password resets while the     *)
(* clock passes the one-hour and 24-hour expiries.                         *)
(***************************************************************************)
Init ==
    /\ users = <<UserRow(AdminEmail, AdminPassword, ROLE_ADMIN, TRUE, 0)>>
    /\ email_tokens = {}
    /\ tokens_issued = 0
    /\ outbox = {}
    /\ signing_keys = <<>>
    /\ db = EmptyDb
    /\ stats_cache = WarmCache
    /\ now = 0
    /\ request = NoRequest
    /\ response = NoResponse
    /\ saved_views = {}
    /\ inflight = {}
    /\ workers = <<>>

\* " An@X ": Ann's address as typed
AnnTyped == <<" ", "A", "n", "@", "X", " ">>
\* an address nobody registers
GhostEmail == <<"n", "o", "@", "x">>

TokenValues == {generate_token(n) : n \in 1..MaxTokens} \cup {"bogus"}

RegisterRequests ==
    {ApiRequest("register", 0, data) :
        data \in {None,
                  Some([password |-> "password1"]),
                  Some([email |-> AnnTyped, password |-> "password1"]),
                  Some([email |-> BobEmail, password |-> "password1"]),
                  Some([email |-> AnnEmail, password |-> "short"]),
                  Some([email |-> <<"a", "n">>, password |-> "password1"]),
                  Some([email |-> AdminEmail, password |-> "password1"])}}

VerifyRequests ==
    {ApiRequest("verify_email", 0, [token |-> t, accept_json |-> a]) :
        t \in TokenValues, a \in BOOLEAN}

LoginRequests ==
    {ApiRequest("login", 0, data) :
        data \in {None, Some([email |-> AnnEmail])}
                 \cup {Some([email |-> e, password |-> p]) :
                         e \in {AnnTyped, AdminEmail, GhostEmail},
                         p \in {"password1", "password2", AdminPassword}}}

ForgotRequests ==
    {ApiRequest("forgot_password", 0, data) :
        data \in {None, Some([email |-> <<" ">>])}
                 \cup {Some([email |-> e]) : e \in {AnnTyped, AdminEmail, GhostEmail}}}

ResetRequests ==
    {ApiRequest("reset_password", 0, data) :
        data \in {None, Some([token |-> generate_token(1)]),
                  Some([token |-> generate_token(1), password |-> "short"])}
                 \cup {Some([token |-> t, password |-> "password2"]) : t \in TokenValues}}

\* the instants at which requests arrive after time 0
ClockInstants == {RESET_TTL, RESET_TTL + 1, VERIFICATION_TTL, VERIFICATION_TTL + 1}

Next ==
    \/ /\ Idle /\ Len(users) < MaxUsers /\ tokens_issued < MaxTokens
       /\ \E req \in RegisterRequests, smtp_ok \in BOOLEAN : register(req, smtp_ok)
    \/ /\ Idle
       /\ \E req \in VerifyRequests : verify_email(req)
    \/ /\ Idle
       /\ \E req \in LoginRequests : login(req)
    \/ /\ Idle /\ tokens_issued < MaxTokens
       /\ \E req \in ForgotRequests, smtp_ok \in BOOLEAN : forgot_password(req, smtp_ok)
    \/ /\ Idle
       /\ \E req \in ResetRequests : reset_password(req)
    \/ send_response
    \/ /\ Idle
       /\ \E t \in ClockInstants : t > now /\ Tick(t - now, MaxTime)

Spec == Init /\ [][Next]_vars

(***************************************************************************)
(* The roles scenario: Ann and Bob register and may verify; callers with   *)
(* any token identity change roles, list users and manage signing keys.    *)
(***************************************************************************)
Identities == 0..MaxUsers

RoleRequests ==
    {ApiRequest("update_user_role", i, data) :
        i \in Identities,
        data \in {None, Some([role |-> ROLE_ADMIN]), Some([user_id |-> 1])}
                 \cup {Some([user_id |-> t, role |-> r]) :
                         t \in 1..(MaxUsers + 1),
                         r \in VALID_ROLES \cup {"superuser"}}}

NextRoles ==
    \/ /\ Idle /\ Len(users) < MaxUsers /\ tokens_issued < MaxTokens
       /\ \E e \in {AnnEmail, BobEmail} :
            register(ApiRequest("register", 0, Some([email |-> e, password |-> "password1"])),
                     TRUE)
    \/ /\ Idle
       /\ \E r \in email_tokens :
            verify_email(ApiRequest("verify_email", 0,
                                    [token |-> r.token, accept_json |-> TRUE]))
    \/ /\ Idle
       /\ \E req \in RoleRequests : update_user_role(req)
    \/ /\ Idle
       /\ \E i \in Identities : list_users(ApiRequest("list_users", i, 0))
    \/ /\ Idle /\ Len(signing_keys) < MaxKeys
       /\ \E i \in Identities : generate_signing_key(ApiRequest("generate_signing_key", i, 0))
    \/ /\ Idle
       /\ \E i \in Identities, all \in BOOLEAN :
            list_signing_keys(ApiRequest("list_signing_keys", i, all))
    \/ /\ Idle
       /\ \E i \in Identities, k \in 1..MaxKeys :
            get_signing_key(ApiRequest("get_signing_key", i, k))
    \/ /\ Idle
       /\ \E i \in Identities, k \in 1..MaxKeys :
            revoke_signing_key(ApiRequest("revoke_signing_key", i, k))
    \/ /\ Idle
       /\ \E i \in Identities, k \in 1..MaxKeys :
            admin_revoke_signing_key(ApiRequest("admin_revoke_signing_key", i, k))
    \/ send_response

SpecRoles == Init /\ [][NextRoles]_vars


(***************************************************************************)
(* Accounts: login, verification, password reset.                          *)
(***************************************************************************)
ExistingUsers == 1..Len(users)

\* the verification-token row with which `req` may activate user i now
OwnLiveVerificationToken(req, i) ==
    \E r \in email_tokens :
        /\ r.token = req.arg.token
        /\ r.user_id = i
        /\ r.purpose = "verification"
        /\ now <= r.expires_at

\* C5: login answers with an access token only for the address of an
\* existing user whose stored hash is that of the submitted password and
\* whose is_active is true; a registered user is created inactive, and a
\* user becomes active only in a successful verify request that presents
\* that user's own unexpired verification token.
C5_LoginNeedsVerifiedAccount ==
    [][/\ (Idle /\ request'.op = "login") =>
            IF response'.status = 200
            THEN \E i \in ExistingUsers :
                    /\ response'.body.access_token = [identity |-> i]
                    /\ users[i].email = Lower(Strip(request'.arg[1].email))
                    /\ users[i].pw_hash = [pw_hash_of |-> request'.arg[1].password]
                    /\ users[i].is_active
            ELSE response'.body = <<>>
       /\ \A i \in 1..Len(users') :
            /\ i \notin ExistingUsers => ~users'[i].is_active
            /\ (i \in ExistingUsers /\ ~users[i].is_active /\ users'[i].is_active) =>
                  /\ Idle /\ request'.op = "verify_email"
                  /\ response'.error = ""
                  /\ OwnLiveVerificationToken(request', i)
      ]_vars

\* C5 witness: a registered user, now active, has logged in
C5_Witness ==
    /\ request.op = "login"
    /\ response.status = 200
    /\ response.body.user.id > 1
    /\ response.body.user.email = AnnEmail

\* the verification rows that carry the token of `req`
PresentedVerificationRows(req) ==
    {r \in email_tokens : r.token = req.arg.token /\ r.purpose = "verification"}

\* C6: a verify request with an unexpired verification token activates the
\* token's user and deletes the token; with an expired one (more than 24
\* hours after registration) it deletes the token and activates nobody; with
\* any other token it answers invalid_token and changes nothing.  A deleted
\* token is never issued again, and registration sets the expiry 24 hours
\* ahead.
C6_VerificationTokenOnce ==
    [][/\ (Idle /\ request'.op = "verify_email") =>
            /\ PresentedVerificationRows(request') = {} =>
                  /\ response'.error = "invalid_token"
                  /\ UNCHANGED <<users, email_tokens>>
            /\ \A r \in PresentedVerificationRows(request') :
                  IF now <= r.expires_at
                  THEN /\ users' = [users EXCEPT ![r.user_id].is_active = TRUE]
                       /\ email_tokens' = email_tokens \ {r}
                       /\ response'.error = ""
                  ELSE /\ users' = users
                       /\ email_tokens' = email_tokens \ {r}
                       /\ response'.error = "expired"
       /\ \A r \in email_tokens' \ email_tokens :
            /\ \A n \in 1..tokens_issued : r.token # generate_token(n)
            /\ r.purpose = "verification" =>
                  /\ Idle /\ request'.op = "register"
                  /\ r.expires_at = now + 24 * 3600
      ]_vars

\* C6 witness: the token mailed to Ann, who is active, was presented again
\* and answered invalid_token
C6_Witness ==
    /\ request.op = "verify_email"
    /\ response.error = "invalid_token"
    /\ Mail(AnnEmail, "verification", request.arg.token) \in outbox
    /\ \E i \in ExistingUsers : users[i].email = AnnEmail /\ users[i].is_active

\* the reset row with which `req` may set the password of user i now
OwnLiveResetToken(req, i) ==
    \E r \in email_tokens :
        /\ r.token = req.arg[1].token
        /\ r.user_id = i
        /\ r.purpose = "password_reset"
        /\ now <= r.expires_at
        /\ r \notin email_tokens'

\* C7: a password hash changes, and reset-password answers 200, only in a
\* reset request whose token is a stored, unexpired (at most one hour old)
\* password_reset token of that user, which the request deletes; an expired
\* reset token presented with an acceptable password is deleted and changes
\* no password; a verification token changes nothing; a reset token is
\* issued with an expiry one hour ahead and a value never issued before.
C7_ResetNeedsLiveResetToken ==
    [][/\ \A i \in ExistingUsers :
            users'[i].pw_hash # users[i].pw_hash =>
                /\ Idle /\ request'.op = "reset_password"
                /\ OwnLiveResetToken(request', i)
       /\ (Idle /\ request'.op = "reset_password") =>
            /\ response'.status = 200 =>
                  \E i \in ExistingUsers :
                      /\ OwnLiveResetToken(request', i)
                      /\ users' = [users EXCEPT ![i].pw_hash =
                                       [pw_hash_of |-> request'.arg[1].password]]
            /\ \A r \in email_tokens :
                  (/\ request'.arg # None
                   /\ DOMAIN request'.arg[1] = {"token", "password"}
                   /\ r.token = request'.arg[1].token) =>
                      /\ r.purpose = "verification" =>
                            UNCHANGED <<users, email_tokens>> /\ response'.status = 400
                      /\ (/\ r.purpose = "password_reset"
                          /\ now > r.expires_at
                          /\ Len(request'.arg[1].password) >= 8) =>
                            users' = users /\ email_tokens' = email_tokens \ {r}
       /\ \A r \in email_tokens' \ email_tokens :
            r.purpose = "password_reset" =>
                /\ Idle /\ request'.op = "forgot_password"
                /\ r.expires_at = now + 3600
                /\ \A n \in 1..tokens_issued : r.token # generate_token(n)
      ]_vars

\* C7 witness: a reset request has set a registered user's password
C7_Witness ==
    /\ request.op = "reset_password"
    /\ response.status = 200
    /\ response.body.user_id > 1
    /\ users[response.body.user_id].pw_hash = [pw_hash_of |-> "password2"]

\* C8: forgot-password with an address that is not empty once stripped
\* gets the same answer, 200 with the same message, whether or not the
\* address is registered and whether or not the mail could be sent.
C8_ForgotPasswordSameAnswer ==
    (/\ request.op = "forgot_password"
     /\ request.arg # None
     /\ "email" \in DOMAIN request.arg[1]
     /\ Strip(request.arg[1].email) # <<>>)
    => response =
         [status |-> 200, error |-> "",
          body |-> [message |-> "If an account exists with this email, you will receive password reset instructions."]]

\* C8 witness: the address is registered, a reset token was stored for it,
\* the mail was not sent, and the answer is the 200
C8_Witness ==
    /\ request.op = "forgot_password"
    /\ response.status = 200
    /\ \E r \in email_tokens :
          /\ r.purpose = "password_reset"
          /\ r.token = generate_token(tokens_issued)
          /\ users[r.user_id].email = Lower(Strip(request.arg[1].email))
          /\ \A m \in outbox : m.token # r.token

(***************************************************************************)
(* Roles.                                                                  *)
(***************************************************************************)
RoleNames == {"user", "privileged", "admin", "superuser", ""}
RoleOrder == <<"user", "privileged", "admin">>
RolePosition(role) == CHOOSE k \in 1..3 : RoleOrder[k] = role
RanksAtOrAbove(mine, wanted) ==
    /\ mine \in {"user", "privileged", "admin"}
    /\ wanted \in {"user", "privileged", "admin"}
    /\ RolePosition(mine) >= RolePosition(wanted)

AdminOps == {"update_user_role", "list_users", "admin_revoke_signing_key"}
KeyOps == {"generate_signing_key", "list_signing_keys", "get_signing_key",
           "revoke_signing_key"}

ActiveCaller(req) == req.identity \in ExistingUsers /\ users[req.identity].is_active

RolesAllowed(req) ==
    IF req.op \in AdminOps THEN {"admin"} ELSE {"privileged", "admin"}

\* C9: has_role is the order user < privileged < admin and is false for a
\* role name outside it; the admin routes run only for an active admin and
\* the key routes only for an active privileged or admin user: a missing or
\* inactive caller is answered 401, another caller 403, and in both cases
\* no table changes.
C9_RoleOrderGuardsRoutes ==
    /\ [](\A mine \in RoleNames, wanted \in RoleNames :
            has_role([role |-> mine], wanted) <=> RanksAtOrAbove(mine, wanted))
    /\ [][(Idle /\ request'.op \in AdminOps \cup KeyOps) =>
            IF ~ActiveCaller(request')
            THEN response'.status = 401 /\ UNCHANGED Tables
            ELSE IF users[request'.identity].role \notin RolesAllowed(request')
            THEN response'.status = 403 /\ UNCHANGED Tables
            ELSE response'.status \notin {401, 403}
         ]_vars

\* C9 witness: an active privileged user asked to change a role and got 403
C9_Witness ==
    /\ request.op = "update_user_role"
    /\ ActiveCaller(request)
    /\ users[request.identity].role = "privileged"
    /\ response.status = 403

\* C10: a role request naming the caller's own id changes no user and, from
\* an active admin, is answered 400; no role request changes its caller's
\* role; a request answered 200 changes exactly the role of the named user,
\* who is not the caller, to a valid role, and any other answer changes no
\* user.
C10_OwnRoleUntouched ==
    [][(Idle /\ request'.op = "update_user_role") =>
          LET caller == request'.identity
              data == request'.arg
              named == IF data # None /\ "user_id" \in DOMAIN data[1]
                       THEN data[1].user_id ELSE 0
          IN  /\ named = caller =>
                    /\ users' = users
                    /\ (ActiveCaller(request') /\ users[caller].role = "admin")
                          => response'.status = 400
              /\ caller \in ExistingUsers => users'[caller].role = users[caller].role
              /\ IF response'.status = 200
                 THEN /\ named \in ExistingUsers /\ named # caller
                      /\ data[1].role \in {"user", "privileged", "admin"}
                      /\ users' = [users EXCEPT ![named].role = data[1].role]
                      /\ UNCHANGED <<email_tokens, signing_keys, db>>
                 ELSE users' = users
      ]_vars

\* C10 witness: an admin named itself and was refused
C10_Witness ==
    /\ request.op = "update_user_role"
    /\ request.arg # None
    /\ DOMAIN request.arg[1] = {"user_id", "role"}
    /\ request.arg[1].user_id = request.identity
    /\ request.arg[1].role = "user"
    /\ response = ApiError(400, "Cannot change your own role")

(***************************************************************************)
(* Saved views (views_routes.py, auth_models.SavedView).  A row of         *)
(* saved_views is a record; names are sequences of characters, a payload   *)
(* is a JSON document.                                                      *)
(***************************************************************************)
MaxViews == 2          \* rows of saved_views
MAX_NAME_LENGTH == 255

SavedView(id, user_id, name, payload_json, created_at, updated_at) ==
    [id |-> id, user_id |-> user_id, name |-> name, payload_json |-> payload_json,
     created_at |-> created_at, updated_at |-> updated_at]

\* SavedView.to_dict
view_to_dict(view) ==
    [id |-> view.id, name |-> view.name, payload_json |-> view.payload_json,
     created_at |-> view.created_at, updated_at |-> view.updated_at]

\* the id the database gives the next row of saved_views
NextViewId ==
    IF saved_views = {} THEN 1
    ELSE 1 + (CHOOSE m \in {v.id : v \in saved_views} :
                  \A v \in saved_views : v.id <= m)

\* a lookup that forgets the owner
FindViewAnyOwner(view_id, user_id) ==
    LET rows == {v \in saved_views : v.id = view_id}
    IN  IF rows = {} THEN None ELSE Some(CHOOSE v \in rows : TRUE)

\* SavedView.query.filter_by(id=view_id, user_id=user.id).first()
FindView(view_id, user_id) ==
    LET rows == {v \in saved_views : v.id = view_id /\ v.user_id = user_id}
    IN  IF rows = {} THEN None ELSE Some(CHOOSE v \in rows : TRUE)

\* SavedView.query.filter_by(user_id=user.id, name=name).first() is not None
NameTaken(user_id, name) ==
    \E v \in saved_views : v.user_id = user_id /\ v.name = name

\* SavedView.query.filter(user_id == .., name == .., id != view_id).first()
\* is not None
NameTakenByOther(user_id, name, view_id) ==
    \E v \in saved_views : v.user_id = user_id /\ v.name = name /\ v.id # view_id

\* `not payload` for the value of data.get('payload')
EmptyPayload(payload) == payload = None \/ payload[1].isnull \/ payload[1].obj = EmptyObject

RoomForView == Cardinality(saved_views) < MaxViews

ViewFrame == UNCHANGED <<users, email_tokens, tokens_issued, outbox, signing_keys, db,
                         stats_cache, now, inflight, workers>>

\* GET /api/views
list_saved_views(req) ==
    /\ Idle
    /\ request' = req
    /\ LET user == get_current_user(req.identity)
       IN  IF user = None
           THEN response' = ApiError(401, "User not found or inactive")
           ELSE response' = ApiOk(200, {view_to_dict(v) : v \in
                                {w \in saved_views : w.user_id = req.identity}})
    /\ UNCHANGED saved_views
    /\ ViewFrame

\* create_saved_view up to the check for an existing name: the error it
\* answers, or None when it goes on to insert
create_checks(req) ==
    LET user == get_current_user(req.identity)
        data == req.arg.data
        name == Strip(GetOr(data[1], "name", <<>>))
        payload == Get(data[1], "payload")
    IN  IF user = None THEN Some(ApiError(401, "User not found or inactive"))
        ELSE IF NoData(data) THEN Some(ApiError(400, "No JSON data provided"))
        ELSE IF name = <<>> THEN Some(ApiError(400, "View name is required"))
        ELSE IF EmptyPayload(payload) THEN Some(ApiError(400, "View payload is required"))
        ELSE IF Len(name) > MAX_NAME_LENGTH
        THEN Some(ApiError(400, "View name too long (max 255 characters)"))
        ELSE IF NameTaken(req.identity, name)
        THEN Some(ApiError(409, "A view with this name already exists"))
        ELSE None

\* the row create_saved_view adds and commits
create_row(req) ==
    SavedView(NextViewId, req.identity, Strip(req.arg.data[1]["name"]),
              json_dumps(req.arg.data[1]["payload"]), now, now)

\* POST /api/views
create_saved_view(req) ==
    /\ Idle
    /\ request' = req
    /\ LET error == create_checks(req)
       IN  IF error # None
           THEN /\ response' = error[1]
                /\ UNCHANGED saved_views
           ELSE /\ RoomForView
                /\ saved_views' = saved_views \cup {create_row(req)}
                /\ response' = ApiOk(201, view_to_dict(create_row(req)))
    /\ ViewFrame

\* GET /api/views/<view_id>
get_saved_view(req) ==
    /\ Idle
    /\ request' = req
    /\ LET user == get_current_user(req.identity)
           saved_view == FindView(req.arg.view_id, req.identity)
       IN  IF user = None
           THEN response' = ApiError(401, "User not found or inactive")
           ELSE IF saved_view = None
           THEN response' = ApiError(404, "Saved view not found")
           ELSE response' = ApiOk(200, view_to_dict(saved_view[1]))
    /\ UNCHANGED saved_views
    /\ ViewFrame

\* update_saved_view up to its last check: the error it answers, or None
\* when it goes on to commit
update_checks(req) ==
    LET user == get_current_user(req.identity)
        saved_view == FindView(req.arg.view_id, req.identity)
        data == req.arg.data
        has_name == "name" \in DOMAIN data[1]
        has_payload == "payload" \in DOMAIN data[1]
        name == Strip(data[1]["name"])
    IN  IF user = None THEN Some(ApiError(401, "User not found or inactive"))
        ELSE IF saved_view = None THEN Some(ApiError(404, "Saved view not found"))
        ELSE IF NoData(data) THEN Some(ApiError(400, "No JSON data provided"))
        ELSE IF has_name /\ name = <<>>
        THEN Some(ApiError(400, "View name cannot be empty"))
        ELSE IF has_name /\ Len(name) > MAX_NAME_LENGTH
        THEN Some(ApiError(400, "View name too long (max 255 characters)"))
        ELSE IF has_name /\ NameTakenByOther(req.identity, name, req.arg.view_id)
        THEN Some(ApiError(409, "A view with this name already exists"))
        ELSE IF has_payload /\ EmptyPayload(Get(data[1], "payload"))
        THEN Some(ApiError(400, "View payload cannot be empty"))
        ELSE None

\* the row as update_saved_view commits it: the columns the request names
\* and updated_at are written over the stored row
update_row(req, stored) ==
    LET data == req.arg.data[1]
        renamed == IF "name" \in DOMAIN data
                   THEN [stored EXCEPT !.name = Strip(data["name"])] ELSE stored
        rewritten == IF "payload" \in DOMAIN data
                     THEN [renamed EXCEPT !.payload_json = json_dumps(data["payload"])]
                     ELSE renamed
    IN  [rewritten EXCEPT !.updated_at = now]

\* PUT /api/views/<view_id>
update_saved_view(req) ==
    /\ Idle
    /\ request' = req
    /\ LET error == update_checks(req)
           saved_view == FindView(req.arg.view_id, req.identity)
       IN  IF error # None
           THEN /\ response' = error[1]
                /\ UNCHANGED saved_views
           ELSE /\ saved_views' = (saved_views \ {saved_view[1]})
                                  \cup {update_row(req, saved_view[1])}
                /\ response' = ApiOk(200, view_to_dict(update_row(req, saved_view[1])))
    /\ ViewFrame

\* DELETE /api/views/<view_id>
delete_saved_view(req) ==
    /\ Idle
    /\ request' = req
    /\ LET user == get_current_user(req.identity)
           saved_view == FindView(req.arg.view_id, req.identity)
       IN  IF user = None
           THEN /\ response' = ApiError(401, "User not found or inactive")
                /\ UNCHANGED saved_views
           ELSE IF saved_view = None
           THEN /\ response' = ApiError(404, "Saved view not found")
                /\ UNCHANGED saved_views
           ELSE /\ saved_views' = saved_views \ {saved_view[1]}
                /\ response' = ApiOk(200, [message |-> "deleted"])
    /\ ViewFrame

\* f"{source_view.name} (Copy)"
CopyName(name) == name \o <<" ", "(", "C", "o", "p", "y", ")">>

\* the name duplicate_saved_view gives the copy of `source`
duplicate_name(req, source) ==
    LET given == Strip(GetOr(req.arg.data[1], "name", <<>>))
    IN  IF given = <<>> THEN CopyName(source.name) ELSE given

\* duplicate_saved_view up to the check for an existing name: the error it
\* answers, or None when it goes on to insert
duplicate_checks(req) ==
    LET user == get_current_user(req.identity)
        source_view == FindView(req.arg.view_id, req.identity)
        data == req.arg.data
    IN  IF user = None THEN Some(ApiError(401, "User not found or inactive"))
        ELSE IF source_view = None THEN Some(ApiError(404, "Source view not found"))
        ELSE IF NoData(data) THEN Some(ApiError(400, "No JSON data provided"))
        ELSE IF Len(duplicate_name(req, source_view[1])) > MAX_NAME_LENGTH
        THEN Some(ApiError(400, "View name too long (max 255 characters)"))
        ELSE IF NameTaken(req.identity, duplicate_name(req, source_view[1]))
        THEN Some(ApiError(409, "A view with this name already exists"))
        ELSE None

\* the row duplicate_saved_view adds and commits
duplicate_row(req, source) ==
    SavedView(NextViewId, req.identity, duplicate_name(req, source),
              source.payload_json, now, now)

\* POST /api/views/duplicate/<view_id>
duplicate_saved_view(req) ==
    /\ Idle
    /\ request' = req
    /\ LET error == duplicate_checks(req)
           source_view == FindView(req.arg.view_id, req.identity)
       IN  IF error # None
           THEN /\ response' = error[1]
                /\ UNCHANGED saved_views
           ELSE /\ RoomForView
                /\ saved_views' = saved_views \cup {duplicate_row(req, source_view[1])}
                /\ response' = ApiOk(201, view_to_dict(duplicate_row(req, source_view[1])))
    /\ ViewFrame

\* every key, or the keys of one user, newest first
RECURSIVE AllKeys(_, _, _)
AllKeys(owner, include_revoked, i) ==
    IF i = 0 THEN <<>>
    ELSE (IF (owner = None \/ signing_keys[i].user_id = owner[1])
             /\ (include_revoked \/ signing_keys[i].revoked_at = None)
          THEN <<signing_keys[i]>> ELSE <<>>)
         \o AllKeys(owner, include_revoked, i - 1)

\* key.to_dict(include_secret=False) with key_data['user_email'] and
\* key_data['user_role'] added
AdminKeyData(key) ==
    [id |-> key.id, key_id |-> key.key_id, created_at |-> key.created_at,
     revoked_at |-> key.revoked_at, is_revoked |-> is_revoked(key),
     secret |-> to_dict(key, FALSE).secret,
     user_email |-> users[key.user_id].email, user_role |-> users[key.user_id].role]

\* GET /api/keys/admin/all; the query parameter user_id is absent (<<>>) or
\* a string
admin_list_all_keys(req) ==
    /\ Idle
    /\ request' = req
    /\ LET user == get_current_user(req.identity)
           include_revoked == req.arg.include_revoked
           user_id == req.arg.user_id
           parsed == PyInt(user_id)
           keys == AllKeys(IF user_id = <<>> THEN None ELSE Some(parsed.val),
                           include_revoked, Len(signing_keys))
       IN  IF user = None
           THEN response' = ApiError(401, "User not found or inactive")
           ELSE IF ~can_manage_users(user[1])
           THEN response' = ApiError(403, "Admin permissions required")
           ELSE IF user_id # <<>> /\ ~parsed.ok
           THEN response' = ApiError(400, "Invalid user_id parameter")
           ELSE response' = ApiOk(200, [i \in 1..Len(keys) |-> AdminKeyData(keys[i])])
    /\ UNCHANGED <<users, email_tokens, tokens_issued, outbox, signing_keys, db, stats_cache,
                   now, saved_views, inflight, workers>>

(***************************************************************************)
(* Owners: of three active users (admin, privileged, user) the last two   *)
(* keep saved views and the privileged user holds a signing key.  They     *)
(* name each other's rows.  Identity 0 is the token of a user that no      *)
(* longer exists.                                                           *)
(***************************************************************************)
LongName == [i \in 1..(MAX_NAME_LENGTH + 1) |-> "x"]
ViewNames == {<<"a">>, <<" ", "a">>, <<"b">>, <<" ">>, LongName}
Payload1 == JsonObject([committee |-> "J10"])
NoPayload == JsonObject(EmptyObject)

\* the JSON bodies of POST and PUT /api/views
ViewBodies ==
    {None, Some(EmptyObject), Some([payload |-> Payload1]), Some([payload |-> NoPayload]),
     Some([name |-> <<"b">>])}
    \cup {Some([name |-> n, payload |-> Payload1]) : n \in ViewNames}

ViewIds == 1..MaxViews
OwnerIds == 0..Len(IngestUsers)
\* the callers of the view endpoints: nobody, the privileged user, the user
ViewCallers == {0, 2, 3}

ViewRequest(op, identity, view_id, data) ==
    ApiRequest(op, identity, [view_id |-> view_id, data |-> data])

\* the row generate_signing_key stored for the n-th key, made by user_id
StoredKey(n, user_id) ==
    [id |-> n, user_id |-> user_id, key_id |-> generate_key_pair(n)[1],
     secret |-> generate_key_pair(n)[2], created_at |-> 0, revoked_at |-> None]

InitOwners ==
    /\ users = IngestUsers
    /\ email_tokens = {}
    /\ tokens_issued = 0
    /\ outbox = {}
    /\ signing_keys = <<StoredKey(1, 2)>>
    /\ db = EmptyDb
    /\ stats_cache = WarmCache
    /\ now = 0
    /\ request = NoRequest
    /\ response = NoResponse
    /\ saved_views = {}
    /\ inflight = {}
    /\ workers = <<>>

NextOwners ==
    \/ /\ Idle
       /\ \E i \in ViewCallers : list_saved_views(ViewRequest("list_saved_views", i, 0, None))
    \/ /\ Idle
       /\ \E i \in ViewCallers, d \in ViewBodies :
            create_saved_view(ViewRequest("create_saved_view", i, 0, d))
    \/ /\ Idle
       /\ \E i \in ViewCallers, v \in ViewIds :
            get_saved_view(ViewRequest("get_saved_view", i, v, None))
    \/ /\ Idle
       /\ \E i \in ViewCallers, v \in ViewIds, d \in ViewBodies :
            update_saved_view(ViewRequest("update_saved_view", i, v, d))
    \/ /\ Idle
       /\ \E i \in ViewCallers, v \in ViewIds :
            delete_saved_view(ViewRequest("delete_saved_view", i, v, None))
    \/ /\ Idle
       /\ \E i \in ViewCallers, v \in ViewIds, d \in ViewBodies :
            duplicate_saved_view(ViewRequest("duplicate_saved_view", i, v, d))
    \/ /\ Idle
       /\ \E i \in OwnerIds, all \in BOOLEAN :
            list_signing_keys(ApiRequest("list_signing_keys", i, all))
    \/ /\ Idle
       /\ \E i \in OwnerIds, k \in DOMAIN signing_keys :
            get_signing_key(ApiRequest("get_signing_key", i, k))
    \/ /\ Idle
       /\ \E i \in OwnerIds, k \in DOMAIN signing_keys :
            revoke_signing_key(ApiRequest("revoke_signing_key", i, k))
    \/ send_response

SpecOwners == InitOwners /\ [][NextOwners]_vars

(***************************************************************************)
(* Keys: the same three users generate, list, read and revoke signing      *)
(* keys, and the admin lists and revokes everybody's.                      *)
(***************************************************************************)
NextKeys ==
    \/ /\ Idle /\ Len(signing_keys) < MaxKeys
       /\ \E i \in OwnerIds : generate_signing_key(ApiRequest("generate_signing_key", i, 0))
    \/ /\ Idle
       /\ \E i \in OwnerIds, all \in BOOLEAN :
            list_signing_keys(ApiRequest("list_signing_keys", i, all))
    \/ /\ Idle
       /\ \E i \in OwnerIds, k \in 1..MaxKeys :
            get_signing_key(ApiRequest("get_signing_key", i, k))
    \/ /\ Idle
       /\ \E i \in OwnerIds, k \in 1..MaxKeys :
            revoke_signing_key(ApiRequest("revoke_signing_key", i, k))
    \/ /\ Idle
       /\ \E i \in OwnerIds, k \in 1..MaxKeys :
            admin_revoke_signing_key(ApiRequest("admin_revoke_signing_key", i, k))
    \/ /\ Idle
       /\ \E i \in OwnerIds, all \in BOOLEAN, u \in {<<>>, <<"2">>, <<"x">>} :
            admin_list_all_keys(ApiRequest("admin_list_all_keys", i,
                                           [include_revoked |-> all, user_id |-> u]))
    \/ /\ Idle
       /\ \E d \in {1, 2} : Tick(d, MaxKeys + 1)
    \/ send_response

SpecKeys == InitIngest /\ [][NextKeys]_vars

(***************************************************************************)
(* Ownership of saved views and signing keys.                              *)
(***************************************************************************)
ViewOps == {"get_saved_view", "update_saved_view", "delete_saved_view",
            "duplicate_saved_view"}
OwnKeyOps == {"get_signing_key", "revoke_signing_key"}

\* `req` names a saved view that exists and belongs to somebody else
NamesOthersView(req) ==
    /\ req.op \in ViewOps
    /\ \E v \in saved_views : v.id = req.arg.view_id /\ v.user_id # req.identity

\* `req` names a signing key that exists and belongs to somebody else
NamesOthersKey(req) ==
    /\ req.op \in OwnKeyOps
    /\ req.arg \in DOMAIN signing_keys
    /\ signing_keys[req.arg].user_id # req.identity

MayHoldKeys(req) == users[req.identity].role \in {"privileged", "admin"}

\* the rows of saved_views a step wrote or removed
TouchedViews == (saved_views \ saved_views') \cup (saved_views' \ saved_views)

\* C11 as stated: a request through a non-admin endpoint that names another
\* user's saved view or signing key is answered 404 and changes nothing.
C11_Original ==
    [][(Idle /\ (NamesOthersView(request') \/ NamesOthersKey(request')))
       => /\ response'.status = 404
          /\ saved_views' = saved_views
          /\ signing_keys' = signing_keys]_vars

\* C11: views and keys are scoped to their owner.  A request through a
\* non-admin endpoint that names another user's saved view or signing key
\* changes nothing and returns no field of it; it is answered 404 when the
\* caller is an active user allowed to use the endpoint (any role for views,
\* privileged or admin for keys), 401 when the caller is unknown or inactive,
\* 403 when an active caller of role user names a key.  Whatever a view or
\* key request writes, removes or returns belongs to the caller.
C11_OwnerScoping ==
    [][(Idle /\ Handled')
       => /\ NamesOthersView(request')
             => /\ response'.status = IF ActiveCaller(request') THEN 404 ELSE 401
                /\ response'.body = <<>>
                /\ saved_views' = saved_views
          /\ NamesOthersKey(request')
             => /\ response'.status = IF ~ActiveCaller(request') THEN 401
                                      ELSE IF MayHoldKeys(request') THEN 404 ELSE 403
                /\ response'.body = <<>>
                /\ signing_keys' = signing_keys
          /\ \A v \in TouchedViews : v.user_id = request'.identity
          /\ (request'.op \in ViewOps /\ response'.status \in {200, 201}
              /\ request'.op # "delete_saved_view")
             => \E v \in saved_views' : /\ v.user_id = request'.identity
                                        /\ view_to_dict(v) = response'.body
          /\ (request'.op = "list_saved_views" /\ response'.status = 200)
             => response'.body = {view_to_dict(v) : v \in
                                    {w \in saved_views : w.user_id = request'.identity}}
          /\ \A k \in DOMAIN signing_keys :
                signing_keys'[k] # signing_keys[k]
                => signing_keys[k].user_id = request'.identity
          /\ (request'.op \in OwnKeyOps \cup {"list_signing_keys"}
              /\ response'.status = 200)
             => \A i \in DOMAIN response'.body :
                   signing_keys'[response'.body[i].id].user_id = request'.identity]_vars

\* an active caller asked to delete a view of somebody else, was answered
\* 404, and the view is still there
C11_Witness ==
    /\ request.op = "delete_saved_view"
    /\ ActiveCaller(request)
    /\ \E v \in saved_views : v.id = request.arg.view_id /\ v.user_id # request.identity
    /\ response.status = 404

(***************************************************************************)
(* The secret of a signing key in API responses.                           *)
(***************************************************************************)
\* the secrets the key dictionaries of a response carry
SecretsIn(resp) ==
    {resp.body[i].secret[1] : i \in {j \in DOMAIN resp.body : resp.body[j].secret # None}}

\* C12: a response of a key route contains a key's secret exactly when it is
\* the 201 answer to the request that generated that key, and then it is the
\* secret of the key just stored for the caller; list, get, revoke and the
\* admin routes never return a secret, and to_dict(include_secret=True)
\* leaves the secret out for a revoked key.
C12_SecretShownOnce ==
    [][(Idle /\ Handled')
       => /\ SecretsIn(response') # {}
             <=> (request'.op = "generate_signing_key" /\ response'.status = 201)
          /\ SecretsIn(response') # {}
             => /\ Len(signing_keys') = Len(signing_keys) + 1
                /\ signing_keys'[Len(signing_keys')].user_id = request'.identity
                /\ SecretsIn(response') = {signing_keys'[Len(signing_keys')].secret}
          /\ \A k \in DOMAIN signing_keys' :
                signing_keys'[k].revoked_at # None
                => to_dict(signing_keys'[k], TRUE).secret = None]_vars

\* the owner read a live key and the answer carries the key without its secret
C12_Witness ==
    /\ request.op = "get_signing_key"
    /\ response.status = 200
    /\ response.body[1].key_id = signing_keys[request.arg].key_id
    /\ signing_keys[request.arg].revoked_at = None
    /\ SecretsIn(response) = {}

(***************************************************************************)
(* Saved-view requests served by several threads.  The server handles      *)
(* requests concurrently (threads of app.run, workers of Gunicorn), each   *)
(* with its own database session: between the SELECT that looks for an    *)
(* existing name and the COMMIT of the INSERT or UPDATE another request    *)
(* may run.  A request that passed its checks and has not committed yet is *)
(* in `inflight`, with the row its session loaded.                         *)
(***************************************************************************)
MaxThreads == 1        \* requests between their name check and their commit

WriteOps == {"create_saved_view", "update_saved_view", "duplicate_saved_view"}

\* the checks of the handler of `req`
view_checks(req) ==
    CASE req.op = "create_saved_view" -> create_checks(req)
      [] req.op = "update_saved_view" -> update_checks(req)
      [] req.op = "duplicate_saved_view" -> duplicate_checks(req)

\* a request whose name check found nothing; loaded: the row its session
\* read (None for create)
Checked(req) ==
    [req |-> req,
     loaded |-> IF req.op = "create_saved_view" THEN None
                ELSE FindView(req.arg.view_id, req.identity)]

\* a thread runs a create, update or duplicate request up to and including
\* its check for an existing name, and the check finds none
check_view_name(req) ==
    /\ Idle
    /\ req.op \in WriteOps
    /\ Cardinality(inflight) < MaxThreads
    /\ view_checks(req) = None
    /\ inflight' = inflight \cup {Checked(req)}
    /\ UNCHANGED <<users, email_tokens, tokens_issued, outbox, signing_keys, db, stats_cache,
                   now, request, response, saved_views, workers>>

\* the row with the id of `row` as it is stored now
Stored(row) == {v \in saved_views : v.id = row.id}

\* that thread goes on: db.session.add / attribute assignment, commit, and
\* the answer.  An UPDATE of a row deleted meanwhile matches nothing and the
\* handler answers 500.
commit_view(t) ==
    /\ Idle
    /\ t \in inflight
    /\ inflight' = inflight \ {t}
    /\ request' = t.req
    /\ CASE t.req.op = "create_saved_view" ->
              /\ RoomForView
              /\ saved_views' = saved_views \cup {create_row(t.req)}
              /\ response' = ApiOk(201, view_to_dict(create_row(t.req)))
         [] t.req.op = "duplicate_saved_view" ->
              /\ RoomForView
              /\ saved_views' = saved_views \cup {duplicate_row(t.req, t.loaded[1])}
              /\ response' = ApiOk(201, view_to_dict(duplicate_row(t.req, t.loaded[1])))
         [] t.req.op = "update_saved_view" ->
              IF Stored(t.loaded[1]) = {}
              THEN /\ response' = ApiError(500, "Failed to update saved view")
                   /\ UNCHANGED saved_views
              ELSE LET stored == CHOOSE v \in Stored(t.loaded[1]) : TRUE
                   IN  /\ saved_views' = (saved_views \ {stored})
                                         \cup {update_row(t.req, stored)}
                       /\ response' = ApiOk(200, view_to_dict(update_row(t.req, stored)))
    /\ UNCHANGED <<users, email_tokens, tokens_issued, outbox, signing_keys, db, stats_cache,
                   now, workers>>

\* the JSON bodies of the concurrent requests
ThreadBodies ==
    {Some([name |-> n, payload |-> Payload1]) : n \in {<<"a">>, <<" ", "a">>, <<"b">>}}

ThreadRequests ==
    {ViewRequest(op, i, v, d) : op \in WriteOps, i \in {2, 3}, v \in ViewIds,
                                d \in ThreadBodies}

NextThreads ==
    \/ /\ Idle
       /\ \E req \in ThreadRequests : check_view_name(req)
    \/ /\ Idle
       /\ \E t \in inflight : commit_view(t)
    \/ /\ Idle
       /\ \E req \in ThreadRequests :
            \/ /\ req.op = "create_saved_view" /\ create_saved_view(req)
            \/ /\ req.op = "update_saved_view" /\ update_saved_view(req)
            \/ /\ req.op = "duplicate_saved_view" /\ duplicate_saved_view(req)
    \/ /\ Idle
       /\ \E i \in {2, 3}, v \in ViewIds :
            delete_saved_view(ViewRequest("delete_saved_view", i, v, None))
    \/ send_response

SpecThreads == InitOwners /\ [][NextThreads]_vars

\* C13 as stated: after any sequence and any interleaving of create, update
\* and duplicate requests no user has two saved views with the same name.
C13_NoDuplicateNames ==
    \A v, w \in saved_views : (v.user_id = w.user_id /\ v.name = w.name) => v = w

\* when requests are served one after the other (SpecOwners) a create,
\* update or duplicate that meets an existing name of the caller is answered
\* 409 and writes nothing, and no user has two views with one name
SequentialNameConflict ==
    [][(Idle /\ Handled' /\ request'.op \in WriteOps /\ response'.status = 409)
       => saved_views' = saved_views]_vars

(***************************************************************************)
(* Statistics and their two caches (app.py): the in-memory _stats_cache of *)
(* a worker and the row id = 1 of global_stats_cache.  generated_at is an  *)
(* instant of the server clock.  A timestamp read back from a cache is an  *)
(* instant or, on SQLite, the text 'None' that str(None) stored.           *)
(***************************************************************************)
At(t) == [isnone |-> FALSE, at |-> t]
NoneText == [isnone |-> TRUE, at |-> 0]

\* SELECT MAX(generated_at) FROM bill_compliance: None on an empty table
_get_max_generated_at(d) ==
    IF d.bill_compliance = <<>> THEN None
    ELSE Some(CHOOSE t \in {d.bill_compliance[i].generated_at : i \in DOMAIN d.bill_compliance} :
                 \A i \in DOMAIN d.bill_compliance : d.bill_compliance[i].generated_at <= t)

\* the rows with rn = 1: ROW_NUMBER() OVER (PARTITION BY bill_id,
\* committee_id ORDER BY generated_at DESC); of rows inserted at the same
\* instant the one inserted last
LatestRows(rows) ==
    {i \in DOMAIN rows :
        \A j \in DOMAIN rows :
            (rows[j].bill_id = rows[i].bill_id /\ rows[j].committee_id = rows[i].committee_id)
            => \/ rows[j].generated_at < rows[i].generated_at
               \/ (rows[j].generated_at = rows[i].generated_at /\ j <= i)}

CountState(rows, states) ==
    Cardinality({i \in LatestRows(rows) : LOWER(rows[i].state) \in states})

\* the statistics query of _calculate_stats_from_db and the dictionary built
\* from its row (incomplete bills are counted as non-compliant)
QueryStats(d) ==
    LET rows == d.bill_compliance
        total == Cardinality(LatestRows(rows))
        compliant == CountState(rows, {"compliant"})
        unknown == CountState(rows, {"unknown"})
    IN  [total_committees |-> Cardinality({rows[i].committee_id : i \in DOMAIN rows}),
         total_bills |-> total,
         compliant_bills |-> compliant,
         incomplete_bills |-> 0,
         non_compliant_bills |-> CountState(rows, {"non-compliant"})
                                 + CountState(rows, {"incomplete"}),
         unknown_bills |-> unknown,
         overall_compliance_rate |-> RoundedRate(compliant + unknown, total),
         latest_report_date |-> _get_max_generated_at(d)]

\* _save_stats_to_cache(stats, data_timestamp) by a worker whose in-memory
\* cache is `cache`: the database and the cache afterwards.  SQLite stores
\* str(data_timestamp), which is 'None' for None; on PostgreSQL a NULL
\* data_timestamp violates NOT NULL, the exception is swallowed and nothing
\* is saved.
_save_stats_to_cache(d, cache, stats, data_timestamp) ==
    IF d.db_type = "postgresql" /\ data_timestamp = None
    THEN [db |-> d, cache |-> cache]
    ELSE [db |-> [d EXCEPT !.global_stats_cache =
                     Some([stats |-> stats,
                           data_timestamp |-> IF data_timestamp = None THEN NoneText
                                              ELSE At(data_timestamp[1]),
                           cache_generated_at |-> now])],
          cache |-> [data |-> Some(stats),
                     data_timestamp |-> IF data_timestamp = None THEN None
                                        ELSE Some(At(data_timestamp[1])),
                     cache_timestamp |-> Some(now)]]

\* _calculate_stats_from_db: the statistics, and the database and cache
\* after _save_stats_to_cache
_calculate_stats_from_db(d, cache) ==
    LET stats == QueryStats(d)
        saved == _save_stats_to_cache(d, cache, stats, stats.latest_report_date)
    IN  [stats |-> stats, db |-> saved.db, cache |-> saved.cache]

\* a staleness test that compares instants only
NotNewerStrict(current_max_timestamp, cache_timestamp) ==
    /\ cache_timestamp # None
    /\ ~cache_timestamp[1].isnone
    /\ current_max_timestamp <= cache_timestamp[1].at

\* the staleness test of _get_cached_stats: current_max_timestamp <=
\* cache_timestamp for two instants; when the cached value is not an instant
\* the code falls back to str(current_max_timestamp) <= str(cache_timestamp),
\* and a timestamp text ('2025-...') sorts before 'None'
NotNewer(current_max_timestamp, cache_timestamp) ==
    IF cache_timestamp = None \/ cache_timestamp[1].isnone THEN TRUE
    ELSE current_max_timestamp <= cache_timestamp[1].at

\* _get_cached_stats by a worker whose in-memory cache is `cache`: the
\* statistics served (None on a miss) and the cache afterwards
_get_cached_stats(d, cache) ==
    LET current_max_timestamp == _get_max_generated_at(d)
        cached_stats == d.global_stats_cache
    IN  IF /\ cache.data # None
           /\ cache.data_timestamp # None
           /\ current_max_timestamp # None
           /\ NotNewer(current_max_timestamp[1], cache.data_timestamp)
        THEN [stats |-> cache.data, cache |-> cache]
        ELSE IF /\ cached_stats # None
                /\ current_max_timestamp # None
                /\ NotNewer(current_max_timestamp[1], Some(cached_stats[1].data_timestamp))
        THEN [stats |-> Some(cached_stats[1].stats),
              cache |-> [data |-> Some(cached_stats[1].stats),
                         data_timestamp |-> Some(cached_stats[1].data_timestamp),
                         cache_timestamp |-> Some(cached_stats[1].cache_generated_at)]]
        ELSE [stats |-> None, cache |-> cache]

\* _warm_stats_cache at application start
_warm_stats_cache(d, cache) ==
    IF _get_cached_stats(d, cache).stats # None
    THEN [db |-> d, cache |-> _get_cached_stats(d, cache).cache]
    ELSE [db |-> _calculate_stats_from_db(d, cache).db,
          cache |-> _calculate_stats_from_db(d, cache).cache]

\* GET /api/stats
get_stats(req) ==
    /\ Idle
    /\ request' = req
    /\ LET hit == _get_cached_stats(db, stats_cache)
           fresh == _calculate_stats_from_db(db, stats_cache)
       IN  IF hit.stats # None
           THEN /\ response' = ApiOk(200, hit.stats[1])
                /\ stats_cache' = hit.cache
                /\ UNCHANGED db
           ELSE /\ response' = ApiOk(200, fresh.stats)
                /\ stats_cache' = fresh.cache
                /\ db' = fresh.db
    /\ UNCHANGED <<users, email_tokens, tokens_issued, outbox, signing_keys, now, saved_views,
                   inflight, workers>>

(***************************************************************************)
(* Statistics: the application starts on an empty compliance database      *)
(* (SQLite or PostgreSQL) and warms its cache; a submitter holding a live  *)
(* key then imports reports, one after the other and at later and later    *)
(* instants, and the dashboard reads /api/stats.                            *)
(***************************************************************************)
MaxReports == 2        \* reports imported
MaxInstant == 2        \* last instant of the statistics scenario, seconds

Bill2 ==
    [bill_id |-> "S200", bill_title |-> "Another Act", hearing_date |-> None,
     reported_out |-> TRUE, summary_present |-> FALSE, votes_present |-> FALSE,
     state |-> "Non-Compliant"]

\* the reports sent: a bill of J10, the same bill found incomplete later,
\* and two bills of J11
Reports ==
    {BasicReport,
     ("committee_id" :> "J10") @@ ("bills" :> <<[Bill1 EXCEPT !.state = "incomplete"]>>),
     ("committee_id" :> "J11") @@ ("bills" :> <<Bill1, Bill2>>)}

\* a report signed with the secret of key 1 at instant 0
SignedReport(report) ==
    IngestRequest(PATH_BASIC, KeyIdOf(1), <<"0">>,
                  ClientSignature(SecretOf(1), <<"0">>, "POST", PATH_BASIC,
                                  RawBody(JsonObject(report), FALSE)),
                  RawBody(JsonObject(report), FALSE))

\* the database and the worker's cache when create_app has run
\* init_compliance_database and _warm_stats_cache
Started(db_type) ==
    _warm_stats_cache([EmptyDb EXCEPT !.db_type = db_type], InvalidatedCache)

InitStats ==
    /\ now = 0
    /\ users = IngestUsers
    /\ email_tokens = {}
    /\ tokens_issued = 0
    /\ outbox = {}
    /\ signing_keys = <<StoredKey(1, 2)>>
    /\ \E db_type \in {"sqlite", "postgresql"} :
          /\ db = Started(db_type).db
          /\ stats_cache = Started(db_type).cache
    /\ request = NoRequest
    /\ response = NoResponse
    /\ saved_views = {}
    /\ inflight = {}
    /\ workers = <<>>

\* the clock has moved on since the last row was written
LaterInstant ==
    \A i \in DOMAIN db.bill_compliance : db.bill_compliance[i].generated_at < now

NextStats ==
    \/ /\ Idle /\ Len(db.compliance_scan_metadata) < MaxReports /\ LaterInstant
       /\ \E report \in Reports : ingest_basic(SignedReport(report))
    \/ /\ Idle
       /\ get_stats(ApiRequest("get_stats", 0, 0))
    \/ /\ Idle
       /\ Tick(1, MaxInstant)
    \/ send_response

SpecStats == InitStats /\ [][NextStats]_vars

\* C14 as stated: from an empty database with the cache warmed at startup,
\* after any sequence of successful imports and GET /api/stats requests each
\* /api/stats response equals the statistics computed from the latest record
\* per (bill_id, committee_id) of the rows committed before the request.
C14_CachedEqualsUncached ==
    [][(Idle /\ request'.op = "get_stats") => response'.body = QueryStats(db)]_vars

(***************************************************************************)
(* GET /api/bills: the latest version of every bill of every committee,    *)
(* filtered, sorted and paged.                                              *)
(***************************************************************************)
\* pieces the ids and titles of the scenario are made of
Fragments ==
    {"", "H", "S", "H1", "S2", "1", "2", "0", "00", "100", "200", "10", "20",
     "An", "An ", "Another", "Another ", "other ", "Act", " Act", "ct", "A"}

\* text LIKE '%term%'
LIKE(text, term) == \E pre \in Fragments, post \in Fragments : text = pre \o term \o post

\* the query parameters get_bills reads, absent ones at their defaults
BillsArgs(committee_id, states, search, page, pageSize, sortDir) ==
    [committee_id |-> committee_id, states |-> states, search |-> search,
     page |-> page, pageSize |-> pageSize, sortDir |-> sortDir]

\* filter_clause: the conditions inside the latest_bills CTE
filter_clause(row, args) ==
    /\ args.committee_id # None => row.committee_id = args.committee_id[1]
    /\ args.states # {} => \E state \in args.states : LOWER(row.state) = LOWER(state)

\* latest_bills WHERE rn = 1: of the rows that pass filter_clause, per
\* (bill_id, committee_id) the one with the greatest generated_at
latest_bills(d, args) ==
    LET rows == d.bill_compliance
        kept == {i \in DOMAIN rows : filter_clause(rows[i], args)}
    IN  {i \in kept :
            \A j \in kept :
                (rows[j].bill_id = rows[i].bill_id /\ rows[j].committee_id = rows[i].committee_id)
                => \/ rows[j].generated_at < rows[i].generated_at
                   \/ (rows[j].generated_at = rows[i].generated_at /\ j <= i)}

\* where_clause: the search term, on the joined title too
where_clause(d, row, args) ==
    args.search # "" =>
        \/ LIKE(row.bill_id, args.search)
        \/ (row.bill_id \in DOMAIN d.bills /\ LIKE(d.bills[row.bill_id].bill_title, args.search))

selected_bills(d, args) ==
    {i \in latest_bills(d, args) : where_clause(d, d.bill_compliance[i], args)}

\* ORDER BY generated_at {sort_dir}; rows of one instant come in the order
\* `tie` (SQL leaves it open)
ComesBefore(rows, i, j, sortDir, tie) ==
    IF rows[i].generated_at # rows[j].generated_at
    THEN IF sortDir = "ASC" THEN rows[i].generated_at < rows[j].generated_at
         ELSE rows[i].generated_at > rows[j].generated_at
    ELSE IF tie = "asc" THEN i < j ELSE i > j

RECURSIVE OrderBy(_, _, _, _)
OrderBy(rows, S, sortDir, tie) ==
    IF S = {} THEN <<>>
    ELSE LET first == CHOOSE i \in S : \A j \in S \ {i} : ComesBefore(rows, i, j, sortDir, tie)
         IN  <<first>> \o OrderBy(rows, S \ {first}, sortDir, tie)

Min(a, b) == IF a < b THEN a ELSE b

\* LIMIT page_size OFFSET (page - 1) * page_size
LimitOffset(seq, page_size, offset) ==
    SubSeq(seq, offset + 1, Min(offset + page_size, Len(seq)))

\* bill['state'].lower(), 'incomplete' shown as 'non-compliant'
NormalizedState(state) ==
    IF LOWER(state) = "incomplete" THEN "non-compliant" ELSE LOWER(state)

\* the dictionary built from one row of the result
BillDict(d, row) ==
    [committee_id |-> row.committee_id,
     bill_id |-> row.bill_id,
     hearing_date |-> row.hearing_date,
     reported_out |-> row.reported_out # 0,
     summary_present |-> row.summary_present # 0,
     votes_present |-> row.votes_present # 0,
     state |-> NormalizedState(row.state),
     generated_at |-> row.generated_at,
     bill_title |-> IF row.bill_id \in DOMAIN d.bills
                    THEN Some(d.bills[row.bill_id].bill_title) ELSE None]

\* the JSON answer of get_bills for the database d
BillsAnswer(d, args, tie) ==
    LET page_size == Min(args.pageSize, 500)
        offset == (args.page - 1) * page_size
        total_count == Cardinality(selected_bills(d, args))
        sorted == OrderBy(d.bill_compliance, selected_bills(d, args), args.sortDir, tie)
        fetched == LimitOffset(sorted, page_size, offset)
    IN  [bills |-> [k \in DOMAIN fetched |-> BillDict(d, d.bill_compliance[fetched[k]])],
         total |-> total_count,
         page |-> args.page,
         pageSize |-> page_size,
         totalPages |-> (total_count + page_size - 1) \div page_size]

\* GET /api/bills
get_bills(req) ==
    /\ Idle
    /\ request' = req
    /\ \E tie \in {"asc", "desc"} : response' = ApiOk(200, BillsAnswer(db, req.arg, tie))
    /\ UNCHANGED <<users, email_tokens, tokens_issued, outbox, signing_keys, db, stats_cache,
                   now, saved_views, inflight, workers>>

\* the queries of the scenario
BillsQueries ==
    {BillsArgs(committee_id, states, search, page, pageSize, sortDir) :
        committee_id \in {None, Some("J10")},
        states \in {{}, {"Compliant"}, {"non-compliant", "incomplete"}},
        search \in {"", "H1", "Act"},
        page \in {1, 2},
        pageSize \in {1, 100},
        sortDir \in {"DESC"}}
    \cup {BillsArgs(None, {}, "", 1, 600, "ASC")}

NextBills ==
    \/ /\ Idle /\ Len(db.compliance_scan_metadata) < MaxReports /\ LaterInstant
       /\ \E report \in Reports : ingest_basic(SignedReport(report))
    \/ /\ Idle
       /\ \E args \in BillsQueries : get_bills(ApiRequest("get_bills", 0, args))
    \/ /\ Idle
       /\ Tick(1, MaxInstant)
    \/ send_response

SpecBills == InitStats /\ [][NextBills]_vars

\* the records of bill_compliance for the bill and committee of a returned bill
RecordsOf(bill) ==
    {i \in DOMAIN db.bill_compliance :
        /\ db.bill_compliance[i].bill_id = bill.bill_id
        /\ db.bill_compliance[i].committee_id = bill.committee_id}

ReturnedBills == {response'.body.bills[k] : k \in DOMAIN response'.body.bills}

\* C15 as stated: whatever the committee, state and search filters, each
\* bill GET /api/bills returns is the bill_compliance record with the
\* greatest generated_at of its (bill_id, committee_id), and no
\* (bill_id, committee_id) is returned twice.
C15_LatestVersionOnly ==
    [][(Idle /\ request'.op = "get_bills") =>
          /\ \A bill \in ReturnedBills : \A i \in RecordsOf(bill) :
                db.bill_compliance[i].generated_at <= bill.generated_at
          /\ \A k, l \in DOMAIN response'.body.bills :
                (/\ response'.body.bills[k].bill_id = response'.body.bills[l].bill_id
                 /\ response'.body.bills[k].committee_id = response'.body.bills[l].committee_id)
                => k = l]_vars

\* without a state filter the bills returned are the latest versions
C15_LatestWithoutStateFilter ==
    [][(Idle /\ request'.op = "get_bills" /\ request'.arg.states = {}) =>
          \A bill \in ReturnedBills : \A i \in RecordsOf(bill) :
              db.bill_compliance[i].generated_at <= bill.generated_at]_vars

(***************************************************************************)
(* cleanup_database.py: the maintenance script run against the database    *)
(* the application writes.                                                  *)
(***************************************************************************)
MaxDays == 2           \* days the cleanup scenario lasts

\* the rows of a table at the positions in `kept`, in their order
RECURSIVE RowsAt(_, _, _)
RowsAt(rows, kept, i) ==
    IF i > Len(rows) THEN <<>>
    ELSE (IF i \in kept THEN <<rows[i]>> ELSE <<>>) \o RowsAt(rows, kept, i + 1)

\* `if keep_days:` : a cutoff is used when keep_days is given and not 0
HasCutoff(keep_days) == keep_days # None /\ keep_days[1] # 0

\* cutoff_date = datetime.utcnow() - timedelta(days=keep_days)
cutoff_date(keep_days) == now - keep_days[1] * SECONDS_PER_DAY

\* WHERE 1=1 {date_filter}: the positions of the rows the queries look at
date_filter(rows, column, keep_days) ==
    {i \in DOMAIN rows : HasCutoff(keep_days) => rows[i][column] < cutoff_date(keep_days)}

SameBill(r1, r2) == r1.committee_id = r2.committee_id /\ r1.bill_id = r2.bill_id

SameBillAndDay(r1, r2) == SameBill(r1, r2) /\ DATE(r1.generated_at) = DATE(r2.generated_at)

SameCommitteeAndDay(r1, r2) ==
    r1.committee_id = r2.committee_id /\ DATE(r1.scan_date) = DATE(r2.scan_date)

\* PARTITION BY the columns of `partition_by`
SamePartition(partition_by, r1, r2) ==
    CASE partition_by = "committee_id, bill_id" -> SameBill(r1, r2)
      [] partition_by = "committee_id, bill_id, DATE(generated_at)" -> SameBillAndDay(r1, r2)
      [] partition_by = "committee_id, DATE(scan_date)" -> SameCommitteeAndDay(r1, r2)

\* rn = 1 of ROW_NUMBER() OVER (PARTITION BY ... ORDER BY column DESC)
\* over the rows at `among`
FirstOfPartition(rows, among, column, partition_by) ==
    {i \in among :
        \A j \in among :
            SamePartition(partition_by, rows[i], rows[j])
            => \/ rows[j][column] < rows[i][column]
               \/ (rows[j][column] = rows[i][column] /\ j <= i)}

\* cleanup_bill_compliance(dry_run, keep_days): the database afterwards and
\* the number returned
cleanup_bill_compliance(d, dry_run, keep_days) ==
    LET rows == d.bill_compliance
        total_before == Len(rows)
        looked_at == date_filter(rows, "generated_at", keep_days)
        latest == IF d.db_type = "postgresql"
                  THEN FirstOfPartition(rows, looked_at, "generated_at", "committee_id, bill_id")
                  ELSE FirstOfPartition(rows, looked_at, "generated_at",
                                        "committee_id, bill_id, DATE(generated_at)")
        to_keep == Cardinality(latest)
        to_delete == total_before - to_keep
        \* PostgreSQL deletes the ranked rows with rn > 1; SQLite deletes
        \* every row whose id is not among the rn = 1 rows
        deleted == IF d.db_type = "postgresql" THEN looked_at \ latest
                   ELSE DOMAIN rows \ latest
    IN  IF to_delete = 0 THEN [db |-> d, returned |-> 0]
        ELSE IF dry_run THEN [db |-> d, returned |-> to_delete]
        ELSE [db |-> [d EXCEPT !.bill_compliance = RowsAt(rows, DOMAIN rows \ deleted, 1)],
              returned |-> Cardinality(deleted)]

\* cleanup_scan_metadata(dry_run, keep_days): the database afterwards, the
\* number returned, and whether the DELETE raised.  On PostgreSQL the DELETE
\* has the date filter twice and is given its parameter once.
cleanup_scan_metadata(d, dry_run, keep_days) ==
    LET rows == d.compliance_scan_metadata
        total_before == Len(rows)
        looked_at == date_filter(rows, "scan_date", keep_days)
        latest == FirstOfPartition(rows, looked_at, "scan_date", "committee_id, DATE(scan_date)")
        to_keep == Cardinality(latest)
        to_delete == total_before - to_keep
        deleted == DOMAIN rows \ latest
    IN  IF to_delete = 0 THEN [db |-> d, returned |-> 0, raised |-> FALSE]
        ELSE IF dry_run THEN [db |-> d, returned |-> to_delete, raised |-> FALSE]
        ELSE IF d.db_type = "postgresql" /\ HasCutoff(keep_days)
        THEN [db |-> d, returned |-> 0, raised |-> TRUE]
        ELSE [db |-> [d EXCEPT !.compliance_scan_metadata =
                                  RowsAt(rows, DOMAIN rows \ deleted, 1)],
              returned |-> Cardinality(deleted), raised |-> FALSE]

\* python backend/cleanup_database.py [--dry-run] [--keep-days=N] [--stats-only]
cleanup_main(req) ==
    /\ Idle
    /\ request' = req
    /\ LET args == req.arg
           bc == cleanup_bill_compliance(db, args.dry_run, args.keep_days)
           csm == cleanup_scan_metadata(bc.db, args.dry_run, args.keep_days)
       IN  IF args.stats_only
           THEN /\ db' = db
                /\ response' = ApiOk(0, [total_deleted |-> 0])
           ELSE /\ db' = csm.db
                /\ response' = IF csm.raised THEN ApiError(1, "Error during cleanup")
                               ELSE ApiOk(0, [total_deleted |-> bc.returned + csm.returned])
    /\ UNCHANGED <<users, email_tokens, tokens_issued, outbox, signing_keys, stats_cache,
                   now, saved_views, inflight, workers>>

DigitChar(k) ==
    CASE k = 0 -> "0" [] k = 1 -> "1" [] k = 2 -> "2" [] k = 3 -> "3" [] k = 4 -> "4"
      [] k = 5 -> "5" [] k = 6 -> "6" [] k = 7 -> "7" [] k = 8 -> "8" [] k = 9 -> "9"

\* str(n) of a natural number
RECURSIVE Str(_)
Str(n) == IF n < 10 THEN <<DigitChar(n)>> ELSE Str(n \div 10) \o <<DigitChar(n % 10)>>

\* a report signed with the secret of key 1 at the present instant
SignedReportNow(report) ==
    IngestRequest(PATH_BASIC, KeyIdOf(1), Str(now),
                  ClientSignature(SecretOf(1), Str(now), "POST", PATH_BASIC,
                                  RawBody(JsonObject(report), FALSE)),
                  RawBody(JsonObject(report), FALSE))

CleanupArgs(dry_run, keep_days, stats_only) ==
    [dry_run |-> dry_run, keep_days |-> keep_days, stats_only |-> stats_only]

\* the command lines of the scenario
CleanupRuns ==
    {CleanupArgs(dry_run, keep_days, FALSE) :
        dry_run \in BOOLEAN, keep_days \in {None, Some(0), Some(1)}}
    \cup {CleanupArgs(FALSE, None, TRUE)}

NextCleanup ==
    \/ /\ Idle /\ Len(db.compliance_scan_metadata) < MaxReports /\ LaterInstant
       /\ \E report \in Reports : ingest_basic(SignedReportNow(report))
    \/ /\ Idle
       /\ \E args \in CleanupRuns : cleanup_main(ApiRequest("cleanup", 0, args))
    \/ /\ Idle
       /\ Tick(SECONDS_PER_DAY \div 2, MaxDays * SECONDS_PER_DAY)
    \/ send_response

SpecCleanup == InitStats /\ [][NextCleanup]_vars

\* the rows of a table whose timestamp lies within the last keep_days days
WithinKeepDays(rows, column, keep_days) ==
    RowsAt(rows, {i \in DOMAIN rows : rows[i][column] >= cutoff_date(keep_days)}, 1)

CleanupWithKeepDays ==
    /\ Idle
    /\ request'.op = "cleanup"
    /\ ~request'.arg.dry_run
    /\ ~request'.arg.stats_only
    /\ HasCutoff(request'.arg.keep_days)

\* C16 as stated: a cleanup run with keep_days = N that is not a dry run
\* deletes no bill_compliance row whose generated_at, and no
\* compliance_scan_metadata row whose scan_date, lies within the last N days,
\* on SQLite and on PostgreSQL.
C16_RecentRowsKept ==
    [][CleanupWithKeepDays =>
          /\ WithinKeepDays(db'.bill_compliance, "generated_at", request'.arg.keep_days)
             = WithinKeepDays(db.bill_compliance, "generated_at", request'.arg.keep_days)
          /\ WithinKeepDays(db'.compliance_scan_metadata, "scan_date", request'.arg.keep_days)
             = WithinKeepDays(db.compliance_scan_metadata, "scan_date", request'.arg.keep_days)]_vars

\* on PostgreSQL the rows within the last N days stay
C16_RecentRowsKeptPostgres ==
    [][(CleanupWithKeepDays /\ db.db_type = "postgresql") =>
          /\ WithinKeepDays(db'.bill_compliance, "generated_at", request'.arg.keep_days)
             = WithinKeepDays(db.bill_compliance, "generated_at", request'.arg.keep_days)
          /\ WithinKeepDays(db'.compliance_scan_metadata, "scan_date", request'.arg.keep_days)
             = WithinKeepDays(db.compliance_scan_metadata, "scan_date", request'.arg.keep_days)]_vars

(***************************************************************************)
(* Imports that fail: an item the database refuses, a diff_report the      *)
(* database refuses.                                                        *)
(***************************************************************************)
\* an item whose "reason" is JSON null
BadBill == [reason |-> None] @@ Bill2

\* a client diff_report; `note` stands for its texts
DiffReport(note) == [compliance_delta |-> 0, note |-> note]

ImportReports ==
    {BasicReport,
     ("committee_id" :> "J11") @@ ("bills" :> <<Bill1, Bill2>>),
     ("committee_id" :> "J10") @@ ("bills" :> <<Bill1, BadBill>>),
     ("committee_id" :> "J10") @@ ("bills" :> <<Bill2>>)
        @@ ("diff_report" :> DiffReport(<<"o", "k">>)),
     ("committee_id" :> "J11") @@ ("bills" :> <<Bill1, Bill2>>)
        @@ ("diff_report" :> DiffReport(<<"o", "\\u0000">>))}

NextImport ==
    \/ /\ Idle /\ Len(db.compliance_scan_metadata) < MaxReports /\ LaterInstant
       /\ \E report \in ImportReports : ingest_basic(SignedReport(report))
    \/ /\ Idle
       /\ get_stats(ApiRequest("get_stats", 0, 0))
    \/ /\ Idle
       /\ Tick(1, MaxInstant)
    \/ send_response

SpecImport == InitStats /\ [][NextImport]_vars

\* the items and the committee of the report a request carries
ItemsOf(req) == req.body.doc.obj["bills"]
CommitteeOf(req) == req.body.doc.obj["committee_id"]

\* a signed report is being imported
ImportStep == Idle /\ request'.op = "ingest" /\ request'.path = PATH_BASIC /\ response'.is_valid

\* the rows of bill_compliance added by the step
AddedRows == SubSeq(db'.bill_compliance, Len(db.bill_compliance) + 1, Len(db'.bill_compliance))

\* the import failed as a whole: nothing persists, 500, the cache stays
FailedWhole ==
    /\ db' = db
    /\ response'.status = 500
    /\ response'.imported_count = None
    /\ stats_cache' = stats_cache

\* the import succeeded as a whole: one new row per item, in order
SucceededWhole ==
    /\ response'.imported_count = Some(Len(ItemsOf(request')))
    /\ Len(AddedRows) = Len(ItemsOf(request'))
    /\ \A i \in DOMAIN AddedRows :
          /\ AddedRows[i].bill_id = ItemsOf(request')[i].bill_id
          /\ AddedRows[i].committee_id = CommitteeOf(request')
    /\ SubSeq(db'.bill_compliance, 1, Len(db.bill_compliance)) = db.bill_compliance

\* C17 as stated: when the insert of an item of the report raises a
\* database error nothing of the report persists, the answer is 500 and the
\* statistics cache is not invalidated; when the import returns success one
\* bill_compliance row per item has been committed and imported_count is the
\* number of items.
C17_AllOrNothing ==
    [][ImportStep =>
          /\ (\E i \in DOMAIN ItemsOf(request') : InsertRaises(ItemsOf(request')[i]))
             => FailedWhole
          /\ response'.status = 200 => SucceededWhole]_vars

\* the failure half: an item that raises undoes the whole report
C17_FailureUndoesAll ==
    [][ImportStep =>
          ((\E i \in DOMAIN ItemsOf(request') : InsertRaises(ItemsOf(request')[i]))
           => FailedWhole)]_vars

\* on SQLite a success has committed one row per item
C17_SuccessOnSqlite ==
    [][(ImportStep /\ db.db_type = "sqlite" /\ response'.status = 200) => SucceededWhole]_vars

(***************************************************************************)
(* _calculate_diff_report applied to snapshots of every shape.             *)
(***************************************************************************)
MaxBills == 2          \* bills listed in a current snapshot

NoChange ==
    [hearing_date |-> None, reported_out |-> FALSE, summary_present |-> FALSE,
     votes_present |-> FALSE]

\* the values the compared fields take: nothing set, an empty and a real
\* hearing date, each flag alone, everything set
FieldValues ==
    {NoChange,
     [NoChange EXCEPT !.hearing_date = Some("")],
     [NoChange EXCEPT !.hearing_date = Some("2026-01-05")],
     [NoChange EXCEPT !.reported_out = TRUE],
     [NoChange EXCEPT !.summary_present = TRUE],
     [NoChange EXCEPT !.votes_present = TRUE],
     [hearing_date |-> Some("2026-01-05"), reported_out |-> TRUE,
      summary_present |-> TRUE, votes_present |-> TRUE]}

SampleBills ==
    {[bill_id |-> "H100", state |-> "compliant"] @@ fields : fields \in FieldValues}
    \cup {[bill_id |-> "S200", state |-> "Non-Compliant"] @@ fields : fields \in FieldValues}

\* the bills of a report, in any order and with repeated ids
CurrentSnapshots == UNION {[1..n -> SampleBills] : n \in 0..MaxBills}

\* what _get_bills_at_date returns: at most one bill per id
PreviousSnapshots ==
    {[i \in DOMAIN bills |-> [generated_at |-> 0] @@ bills[i]] :
        bills \in {b \in UNION {[1..n -> SampleBills] : n \in 0..2} :
                      \A i, j \in DOMAIN b : b[i].bill_id = b[j].bill_id => i = j}}

\* _calculate_diff_report is called on two snapshots
calculate_diff_report(current_bills, previous_bills) ==
    /\ Idle
    /\ request' = ApiRequest("_calculate_diff_report", 0,
                             [current_bills |-> current_bills,
                              previous_bills |-> previous_bills])
    /\ response' = ApiOk(0, _calculate_diff_report(current_bills, previous_bills,
                                                    now, 0, "1 day", None))
    /\ UNCHANGED <<users, email_tokens, tokens_issued, outbox, signing_keys, db, stats_cache,
                   now, saved_views, inflight, workers>>

NextDiffReport ==
    \/ /\ Idle
       /\ \E current_bills \in CurrentSnapshots, previous_bills \in PreviousSnapshots :
             calculate_diff_report(current_bills, previous_bills)
    \/ send_response

SpecDiffReport == InitIngest /\ [][NextDiffReport]_vars

Elements(seq) == {seq[i] : i \in DOMAIN seq}

IdsOf(bills) == {bills[i].bill_id : i \in DOMAIN bills}

\* the field of bill_id in a snapshot is set: the bill listed last under
\* that id has a truthy value
FieldSet(bills, bill_id, field) ==
    \E i \in DOMAIN bills :
        /\ bills[i].bill_id = bill_id
        /\ \A j \in DOMAIN bills : j > i => bills[j].bill_id # bill_id
        /\ Truthy(field, bills[i][field])

\* the change lists of a report with the field each one follows
ChangeLists ==
    {<<"bills_with_new_hearings", "hearing_date">>,
     <<"bills_reported_out", "reported_out">>,
     <<"bills_with_new_summaries", "summary_present">>,
     <<"bills_with_new_votes", "votes_present">>}

\* C19: _calculate_diff_report(current, previous) lists as new_bills the
\* ids in current and not in previous, each once, with new_bills_count their
\* number; a bill is in a change list exactly when it is in both snapshots
\* and the list's field is falsy in previous and truthy in current; so
\* new_bills shares no bill with a change list.
C19_DiffReport ==
    request.op = "_calculate_diff_report" =>
        LET current == request.arg.current_bills
            previous == request.arg.previous_bills
            report == response.body
        IN  /\ Elements(report.new_bills) = IdsOf(current) \ IdsOf(previous)
            /\ report.new_bills_count = Len(report.new_bills)
            /\ report.new_bills_count = Cardinality(IdsOf(current) \ IdsOf(previous))
            /\ \A list \in ChangeLists :
                  /\ \A bill_id \in IdsOf(current) \cup IdsOf(previous) :
                        bill_id \in Elements(report[list[1]])
                        <=> /\ bill_id \in IdsOf(current) \cap IdsOf(previous)
                            /\ FieldSet(current, bill_id, list[2])
                            /\ ~FieldSet(previous, bill_id, list[2])
                  /\ Elements(report[list[1]]) \subseteq IdsOf(current)
                  /\ Elements(report[list[1]]) \cap Elements(report.new_bills) = {}

\* a report with a new bill beside a bill known before whose hearing date,
\* already set, is in no list while its report-out is
C19_Witness ==
    /\ request.op = "_calculate_diff_report"
    /\ response.body.new_bills = <<"S200">>
    /\ response.body.bills_reported_out = <<"H100">>
    /\ response.body.bills_with_new_hearings = <<>>
    /\ FieldSet(request.arg.current_bills, "H100", "hearing_date")

(***************************************************************************)
(* Diff reports of imports spread over a month.                             *)
(***************************************************************************)
MaxSpan == 31          \* days the diff scenario lasts

\* the clock moves by half a day, a week or thirty days
Spans == {SECONDS_PER_DAY \div 2, 7 * SECONDS_PER_DAY, 30 * SECONDS_PER_DAY}

NextDiff ==
    \/ /\ Idle /\ Len(db.compliance_scan_metadata) < MaxReports /\ LaterInstant
       /\ \E report \in Reports : ingest_basic(SignedReportNow(report))
    \/ /\ Idle
       /\ \E span \in Spans : Tick(span, MaxSpan * SECONDS_PER_DAY)
    \/ send_response

SpecDiff == InitStats /\ [][NextDiff]_vars

\* the intervals: key, days, text
Intervals == {<<"daily", 1, "1 day">>, <<"weekly", 7, "7 days">>, <<"monthly", 30, "30 days">>}

\* the generated_at of the committee's committed records strictly earlier
\* than `instant`
EarlierRecords(committee_id, instant) ==
    {db.bill_compliance[i].generated_at : i \in
        {i \in DOMAIN db.bill_compliance :
            /\ db.bill_compliance[i].committee_id = committee_id
            /\ db.bill_compliance[i].generated_at < instant}}

Greatest(S) == CHOOSE t \in S : \A u \in S : u <= t

\* the report an interval should carry for the import in progress
ExpectedReport(days, time_interval) ==
    LET committee_id == CommitteeOf(request')
        current_bills == [i \in DOMAIN ItemsOf(request') |-> CurrentBill(ItemsOf(request')[i])]
        earlier == EarlierRecords(committee_id, now - days * SECONDS_PER_DAY)
    IN  IF earlier = {} THEN None
        ELSE Some(_calculate_diff_report(current_bills,
                                         _get_bills_at_date(db, committee_id, Greatest(earlier)),
                                         now, Greatest(earlier), time_interval, None))

\* the diff reports stored with the scan the step has added
StoredDiffReports ==
    db'.compliance_scan_metadata[Len(db'.compliance_scan_metadata)].diff_report

\* C20 as stated: for daily (1 day), weekly (7 days) and monthly (30 days)
\* the stored report compares the current bills with the committee's
\* snapshot at the greatest generated_at strictly earlier than current_date
\* minus the interval, and is null when there is no such record.
C20_IntervalSnapshots ==
    [][(ImportStep /\ response'.status = 200) =>
          \A interval \in Intervals :
              StoredDiffReports[interval[1]] = ExpectedReport(interval[2], interval[3])]_vars

\* on PostgreSQL the stored reports are the expected ones
C20_OnPostgres ==
    [][(ImportStep /\ response'.status = 200 /\ db.db_type = "postgresql") =>
          \A interval \in Intervals :
              StoredDiffReports[interval[1]] = ExpectedReport(interval[2], interval[3])]_vars

(***************************************************************************)
(* Statistics served by several worker processes.  Every worker has its    *)
(* own _stats_cache and all share the database.  A worker takes one        *)
(* request at a time and the steps of different workers interleave: a GET  *)
(* /api/stats looks in the caches, reads the statistics, writes the row of *)
(* global_stats_cache and then its own _stats_cache; an import inserts its *)
(* rows in a transaction, commits, and invalidates its own _stats_cache.   *)
(* One import transaction is open at a time.                               *)
(***************************************************************************)
MaxWorkers == 2        \* worker processes

Workers == 1..MaxWorkers

\* what a worker is in the middle of: nothing, a GET /api/stats, an import
StatsTask(pc, started, stats, cache) ==
    Some([op |-> "get_stats", pc |-> pc, started |-> started, stats |-> stats,
          cache |-> cache])

ImportTask(pc, outcome) == Some([op |-> "import", pc |-> pc, outcome |-> outcome])

\* a worker has inserted rows and not committed yet
TransactionOpen ==
    \E v \in Workers : /\ workers[v].task # None
                       /\ workers[v].task[1].op = "import"
                       /\ workers[v].task[1].pc = "commit"

\* the worker answers the GET /api/stats that began when bill_compliance
\* had `started` committed rows
StatsAnswer(w, started, stats) ==
    /\ request' = ApiRequest("get_stats", w, started)
    /\ response' = ApiOk(200, stats)

\* get_stats up to the end of _get_cached_stats(): a hit is answered at once
begin_get_stats(w) ==
    /\ Idle
    /\ workers[w].task = None
    /\ LET hit == _get_cached_stats(db, workers[w].cache)
       IN  IF hit.stats # None
           THEN /\ workers' = [workers EXCEPT ![w].cache = hit.cache]
                /\ StatsAnswer(w, Len(db.bill_compliance), hit.stats[1])
           ELSE /\ workers' = [workers EXCEPT
                                  ![w].task = StatsTask("calculate", Len(db.bill_compliance),
                                                        None, None)]
                /\ UNCHANGED <<request, response>>
    /\ UNCHANGED <<users, email_tokens, tokens_issued, outbox, signing_keys, db, stats_cache,
                   now, saved_views, inflight>>

\* _calculate_stats_from_db: the statistics query
read_statistics(w) ==
    /\ Idle
    /\ workers[w].task # None
    /\ workers[w].task[1].op = "get_stats"
    /\ workers[w].task[1].pc = "calculate"
    /\ workers' = [workers EXCEPT
                      ![w].task = StatsTask("save_row", workers[w].task[1].started,
                                            Some(QueryStats(db)), None)]
    /\ UNCHANGED <<users, email_tokens, tokens_issued, outbox, signing_keys, db, stats_cache,
                   now, request, response, saved_views, inflight>>

\* _save_stats_to_cache: the row of global_stats_cache and its commit.  On
\* SQLite the write waits for an open transaction and raises "database is
\* locked" when that does not end in time; the exception is swallowed,
\* nothing is cached and the statistics are returned.
write_cache_row(w) ==
    /\ Idle
    /\ workers[w].task # None
    /\ workers[w].task[1].op = "get_stats"
    /\ workers[w].task[1].pc = "save_row"
    /\ LET task == workers[w].task[1]
           saved == _save_stats_to_cache(db, workers[w].cache, task.stats[1],
                                         task.stats[1].latest_report_date)
       IN  IF db.db_type = "sqlite" /\ TransactionOpen
           THEN /\ workers' = [workers EXCEPT ![w].task = None]
                /\ StatsAnswer(w, task.started, task.stats[1])
                /\ UNCHANGED db
           ELSE /\ db' = saved.db
                /\ workers' = [workers EXCEPT
                                  ![w].task = StatsTask("save_memory", task.started,
                                                        task.stats, Some(saved.cache))]
                /\ UNCHANGED <<request, response>>
    /\ UNCHANGED <<users, email_tokens, tokens_issued, outbox, signing_keys, stats_cache,
                   now, saved_views, inflight>>

\* _save_stats_to_cache: the assignment to _stats_cache; get_stats returns
write_memory_cache(w) ==
    /\ Idle
    /\ workers[w].task # None
    /\ workers[w].task[1].op = "get_stats"
    /\ workers[w].task[1].pc = "save_memory"
    /\ workers' = [workers EXCEPT ![w] = [cache |-> workers[w].task[1].cache[1],
                                          task |-> None]]
    /\ StatsAnswer(w, workers[w].task[1].started, workers[w].task[1].stats[1])
    /\ UNCHANGED <<users, email_tokens, tokens_issued, outbox, signing_keys, db, stats_cache,
                   now, saved_views, inflight>>

\* import_compliance_report up to conn.commit(): the statements of the
\* transaction, with generated_at the instant of the INSERT
insert_rows(w, report) ==
    /\ Idle
    /\ workers[w].task = None
    /\ ~TransactionOpen
    /\ workers' = [workers EXCEPT
                      ![w].task = ImportTask("commit",
                                             ImportOutcome(db, report["committee_id"],
                                                           report["bills"], None))]
    /\ UNCHANGED <<users, email_tokens, tokens_issued, outbox, signing_keys, db, stats_cache,
                   now, request, response, saved_views, inflight>>

\* conn.commit(): the rows become visible to the other connections; the row
\* of global_stats_cache is as the other connections left it
commit_import(w) ==
    /\ Idle
    /\ workers[w].task # None
    /\ workers[w].task[1].op = "import"
    /\ workers[w].task[1].pc = "commit"
    /\ db' = [workers[w].task[1].outcome.db EXCEPT
                 !.global_stats_cache = db.global_stats_cache]
    /\ workers' = [workers EXCEPT
                      ![w].task = IF workers[w].task[1].outcome.invalidated
                                  THEN ImportTask("invalidate", workers[w].task[1].outcome)
                                  ELSE None]
    /\ UNCHANGED <<users, email_tokens, tokens_issued, outbox, signing_keys, stats_cache,
                   now, request, response, saved_views, inflight>>

\* _invalidate_stats_cache() of the importing worker; the import returns
invalidate_after_import(w) ==
    /\ Idle
    /\ workers[w].task # None
    /\ workers[w].task[1].op = "import"
    /\ workers[w].task[1].pc = "invalidate"
    /\ workers' = [workers EXCEPT ![w] = [cache |-> _invalidate_stats_cache, task |-> None]]
    /\ UNCHANGED <<users, email_tokens, tokens_issued, outbox, signing_keys, db, stats_cache,
                   now, request, response, saved_views, inflight>>

\* every worker has run create_app: init_compliance_database on the shared,
\* empty database and _warm_stats_cache
InitWorkers ==
    /\ now = 0
    /\ users = IngestUsers
    /\ email_tokens = {}
    /\ tokens_issued = 0
    /\ outbox = {}
    /\ signing_keys = <<StoredKey(1, 2)>>
    /\ \E db_type \in {"sqlite", "postgresql"} :
          /\ db = Started(db_type).db
          /\ stats_cache = Started(db_type).cache
          /\ workers = [w \in Workers |->
                           [cache |-> _warm_stats_cache(Started(db_type).db,
                                                        InvalidatedCache).cache,
                            task |-> None]]
    /\ request = NoRequest
    /\ response = NoResponse
    /\ saved_views = {}
    /\ inflight = {}

NextWorkers ==
    \/ /\ Idle
       /\ \E w \in Workers : begin_get_stats(w)
    \/ /\ Idle
       /\ \E w \in Workers : read_statistics(w)
    \/ /\ Idle
       /\ \E w \in Workers : write_cache_row(w)
    \/ /\ Idle
       /\ \E w \in Workers : write_memory_cache(w)
    \/ /\ Idle /\ Len(db.compliance_scan_metadata) < MaxReports /\ LaterInstant
       /\ \E w \in Workers, report \in Reports : insert_rows(w, report)
    \/ /\ Idle
       /\ \E w \in Workers : commit_import(w)
    \/ /\ Idle
       /\ \E w \in Workers : invalidate_after_import(w)
    \/ /\ Idle
       /\ Tick(1, MaxInstant)
    \/ send_response

SpecWorkers == InitWorkers /\ [][NextWorkers]_vars

\* the first k rows of bill_compliance are what some commit left: the rows
\* of one import carry one generated_at, and imports differ in theirs
CommitPoint(rows, k) ==
    \/ k = 0
    \/ k = Len(rows)
    \/ rows[k].generated_at # rows[k + 1].generated_at

\* the statistics of the first k rows
StatsOfFirst(k) == QueryStats([db EXCEPT !.bill_compliance = SubSeq(@, 1, k)])

\* C18 as stated: whatever the interleaving of recomputations and imports
\* over the workers, a GET /api/stats that starts after an import has
\* committed answers statistics that include the imported rows: they are the
\* statistics of the rows some commit had left, no older than the rows
\* committed when the request began.
C18_NoStaleStats ==
    (Handled /\ request.op = "get_stats")
    => \E k \in request.arg..Len(db.bill_compliance) :
          /\ CommitPoint(db.bill_compliance, k)
          /\ response.body = StatsOfFirst(k)

\* on PostgreSQL, with one import transaction at a time, no answer is stale
C18_OnPostgres ==
    (Handled /\ request.op = "get_stats" /\ db.db_type = "postgresql")
    => \E k \in request.arg..Len(db.bill_compliance) :
          /\ CommitPoint(db.bill_compliance, k)
          /\ response.body = StatsOfFirst(k)

====
